---- MODULE Spec2Model ----
(***************************************************************************)
(* A model of pdf_processing_v4.py: the transcript pipeline run by main()  *)
(* (extraction, candidate extraction, resolver call, utterance             *)
(* segmentation, utterance cleaning, final JSON) and the pure text         *)
(* transforms it is built from.                                            *)
(*                                                                         *)
(* A Python str is modelled as a sequence of one-character strings, so     *)
(* that offsets, slices, str.find and the regular expressions of the       *)
(* source act on characters exactly as they do in the program.             *)
(***************************************************************************)
EXTENDS Integers, Sequences, FiniteSets, TLC

VARIABLES
    pc,                 \* position of main(): the stage that runs next
    full_text,          \* main.full_text, the document string
    spacy_patterns,     \* main.potential_attributions (the collaborator's answer)
    api_response,       \* main.api_response, the dict API_call returns
    utterances,         \* main.utterances
    cleaned_utterances, \* main.cleaned_utterances
    output_file,        \* the final JSON file on disk, NoFile until it is written
    raised,             \* the exception that ended main(), "none" otherwise
    x,                  \* input string of the pure-transform specifications
    y                   \* result of the pure-transform specifications

vars == <<pc, full_text, spacy_patterns, api_response, utterances,
          cleaned_utterances, output_file, raised, x, y>>

-----------------------------------------------------------------------------
(* Bounds of the model.                                                    *)

\* the longest document and the longest attribution string of a pipeline run
MaxDocLen == 3
MaxAttrLen == 2

\* the characters of the documents, and those of the attribution strings: "b"
\* is document text that no attribution string contains
DocAlphabet == {"a", "b", " "}
AttrAlphabet == {"a", " "}

SeqsUpTo(S, n) == UNION {[1..k -> S] : k \in 0..n}

-----------------------------------------------------------------------------
(* Python str primitives.                                                  *)

\* the characters str.strip(), str.split() and the regex class \s treat as
\* whitespace (the ones a TLA+ string can spell)
WhitespaceChars == {" ", "\t", "\n", "\r", "\f"}

IsSpace(c) == c \in WhitespaceChars

Min(a, b) == IF a <= b THEN a ELSE b
Max(a, b) == IF a >= b THEN a ELSE b

\* s[lo:hi] for 0 <= lo, 0 <= hi (0-based, hi exclusive, clamped to len(s))
Slice(s, lo, hi) ==
    LET h == Min(hi, Len(s))
    IN  IF lo >= h THEN <<>> ELSE SubSeq(s, lo + 1, h)

\* s[lo:]
SliceFrom(s, lo) == Slice(s, lo, Len(s))

\* s.startswith(p, at): p occurs in s at 0-based offset at
OccursAt(s, p, at) ==
    /\ at >= 0
    /\ at + Len(p) <= Len(s)
    /\ \A k \in 1..Len(p) : s[at + k] = p[k]

\* s.find(sub, start) for start >= 0: the lowest offset >= start at which sub
\* occurs, -1 when there is none
Find(s, sub, start) ==
    LET hits == {i \in start..(Len(s) - Len(sub)) : OccursAt(s, sub, i)}
    IN  IF hits = {} THEN -1 ELSE CHOOSE i \in hits : \A j \in hits : i <= j

\* s.lstrip(), s.rstrip(), s.strip()
RECURSIVE LStrip(_)
LStrip(s) == IF s # <<>> /\ IsSpace(Head(s)) THEN LStrip(Tail(s)) ELSE s

RECURSIVE RStrip(_)
RStrip(s) ==
    IF s # <<>> /\ IsSpace(s[Len(s)]) THEN RStrip(SubSeq(s, 1, Len(s) - 1)) ELSE s

Strip(s) == RStrip(LStrip(s))

-----------------------------------------------------------------------------
(* Character classes of the regular expressions.                           *)

UpperChars == {"A", "B", "C", "D", "E", "F", "G", "H", "I", "J", "K", "L", "M",
               "N", "O", "P", "Q", "R", "S", "T", "U", "V", "W", "X", "Y", "Z"}
LowerChars == {"a", "b", "c", "d", "e", "f", "g", "h", "i", "j", "k", "l", "m",
               "n", "o", "p", "q", "r", "s", "t", "u", "v", "w", "x", "y", "z"}
DigitChars == {"0", "1", "2", "3", "4", "5", "6", "7", "8", "9"}
\* \w
WordChars == UpperChars \cup LowerChars \cup DigitChars \cup {"_"}
\* [A-Z_0-9], the characters remove_leading_duplicate_tags allows in a tag
TagNameChars == UpperChars \cup DigitChars \cup {"_"}

\* the length of the longest run of characters of class C in s from offset at
RECURSIVE RunLen(_, _, _)
RunLen(s, C, at) ==
    IF at < Len(s) /\ s[at + 1] \in C THEN 1 + RunLen(s, C, at + 1) ELSE 0

\* the offset just past the whitespace run that starts at offset at (\s*)
SkipSpace(s, at) == at + RunLen(s, WhitespaceChars, at)

-----------------------------------------------------------------------------
(* remove_leading_duplicate_tags                                           *)

\* tag_pattern = r'<[A-Z_0-9]+>' matched at offset at: the offset just past
\* the tag, -1 when no tag starts there
TagEndAt(s, at) ==
    IF at < Len(s) /\ s[at + 1] = "<"
    THEN LET n == RunLen(s, TagNameChars, at + 1)
         IN  IF n >= 1 /\ at + 1 + n < Len(s) /\ s[at + 2 + n] = ">"
             THEN at + 2 + n
             ELSE -1
    ELSE -1

\* (tag\s*)+ from offset at, having matched `seen` tags: the end of the match
RECURSIVE TagRunEnd(_, _, _)
TagRunEnd(s, at, seen) ==
    LET t == TagEndAt(s, at)
    IN  IF t = -1
        THEN (IF seen THEN at ELSE -1)
        ELSE TagRunEnd(s, SkipSpace(s, t), TRUE)

\* re.match(r'^(\s*(tag\s*)+)', attribution): the end of group 1, -1 when the
\* attribution does not start with a tag
LeadingTagsEnd(attribution) == TagRunEnd(attribution, SkipSpace(attribution, 0), FALSE)

\* re.findall(tag_pattern, section), scanning from offset at
RECURSIVE FindAllTags(_, _)
FindAllTags(section, at) ==
    IF at >= Len(section) THEN <<>>
    ELSE LET t == TagEndAt(section, at)
         IN  IF t = -1
             THEN FindAllTags(section, at + 1)
             ELSE <<Slice(section, at, t)>> \o FindAllTags(section, t)

\* the unique_tags loop: a tag is kept unless it equals the one kept last
RECURSIVE UniqueTags(_, _)
UniqueTags(tags, kept) ==
    IF tags = <<>> THEN kept
    ELSE IF kept = <<>> \/ Head(tags) # kept[Len(kept)]
         THEN UniqueTags(Tail(tags), Append(kept, Head(tags)))
         ELSE UniqueTags(Tail(tags), kept)

\* ' '.join(unique_tags) + ' '
RECURSIVE NewLeadingSection(_)
NewLeadingSection(tags) ==
    IF tags = <<>> THEN <<" ">>
    ELSE IF Len(tags) = 1 THEN Head(tags) \o <<" ">>
         ELSE Head(tags) \o <<" ">> \o NewLeadingSection(Tail(tags))

\* attribution.replace(leading_tags_section, new_leading_section, 1); the
\* section is a prefix of the attribution, so its first occurrence is at 0
remove_leading_duplicate_tags(attribution) ==
    LET e == LeadingTagsEnd(attribution)
    IN  IF e = -1 THEN attribution
        ELSE NewLeadingSection(UniqueTags(FindAllTags(Slice(attribution, 0, e), 0), <<>>))
             \o SliceFrom(attribution, e)

-----------------------------------------------------------------------------
(* The resolver's answer as Python values.                                 *)
(*                                                                         *)
(* A JSON value is a record of one shape: type is the Python type          *)
(* json.loads gives it; has_participants says whether the expression       *)
(* `"participants" in value` is true (a key of a dict, an element of a     *)
(* list, a substring of a str); participants is the value under that key   *)
(* of a dict.  A participant dict records which keys it has.               *)

Speakers == {"X", "Y"}

AttrStrings == SeqsUpTo(AttrAlphabet, MaxAttrLen)

NameVariantLists == {<<>>} \cup {<<n>> : n \in Speakers}

\* a participant has no, an empty or a one-element list under either key
AttributionLists == {<<>>} \cup {<<a>> : a \in AttrStrings}

Participants ==
    [has_names : BOOLEAN, speaker_name_variants : NameVariantLists,
     has_attrs : BOOLEAN, speaker_attributions : AttributionLists]

\* a key that is absent carries no value
WellFormedParticipant(p) ==
    /\ ~p.has_names => p.speaker_name_variants = <<>>
    /\ ~p.has_attrs => p.speaker_attributions = <<>>

WellFormedParticipants == {p \in Participants : WellFormedParticipant(p)}

\* the responses name no, one or two participants
ParticipantLists ==
    {<<>>} \cup {<<p>> : p \in WellFormedParticipants}
           \cup {<<p, q>> : p, q \in WellFormedParticipants}

\* header_pattern and footer_pattern are the values under these keys of a
\* dict, the empty string when the key is absent
JsonValue(type, has, participants) ==
    [type |-> type, has_participants |-> has, participants |-> participants,
     header_pattern |-> <<>>, footer_pattern |-> <<>>]

PyNone == JsonValue("NoneType", FALSE, <<>>)

\* the JSON documents that are no object of the response schema
OtherJsonValues ==
    {PyNone, JsonValue("int", FALSE, <<>>), JsonValue("bool", FALSE, <<>>),
     JsonValue("str", FALSE, <<>>), JsonValue("str", TRUE, <<>>),
     JsonValue("list", FALSE, <<>>), JsonValue("list", TRUE, <<>>),
     JsonValue("dict", FALSE, <<>>)}

ObjectJsonValues == {JsonValue("dict", TRUE, ps) : ps \in ParticipantLists}

\* the response objects with a header_pattern or a footer_pattern ('' or
\* 'b'), and one participant X with the attribution string 'a'
PatternedJsonValues ==
    LET patterns == {<<>>, <<"b">>}
        participants ==
            <<[has_names |-> TRUE, speaker_name_variants |-> <<"X">>,
               has_attrs |-> TRUE, speaker_attributions |-> << <<"a">> >>]>>
    IN  {[JsonValue("dict", TRUE, participants)
             EXCEPT !.header_pattern = hp, !.footer_pattern = fp] :
            hp \in patterns, fp \in patterns}

-----------------------------------------------------------------------------
(* get_utterances                                                          *)

Ok(v) == [raised |-> "none", value |-> v]
Raise(e) == [raised |-> e, value |-> <<>>]

\* participant.get("speaker_name_variants", ["Unknown"])
NameVariantsOf(participant) ==
    IF participant.has_names THEN participant.speaker_name_variants ELSE <<"Unknown">>

\* participant.get("speaker_attributions", [])
AttributionsOf(participant) ==
    IF participant.has_attrs THEN participant.speaker_attributions ELSE <<>>

\* the [0] of line 974 raises IndexError on an empty list
NameLookupRaises(participants) ==
    \E i \in 1..Len(participants) : NameVariantsOf(participants[i]) = <<>>

\* the all_attributions loop over the participants and their attributions
RECURSIVE CollectAttributions(_)
CollectAttributions(participants) ==
    IF participants = <<>> THEN <<>>
    ELSE LET p == Head(participants)
             speaker_name == NameVariantsOf(p)[1]
             attrs == AttributionsOf(p)
         IN  [k \in 1..Len(attrs) |->
                 [speaker_name |-> speaker_name, attribution |-> attrs[k]]]
             \o CollectAttributions(Tail(participants))

\* the de-duplication of leading tags of every attribution
DedupAttributions(all_attributions) ==
    [k \in 1..Len(all_attributions) |->
        [speaker_name |-> all_attributions[k].speaker_name,
         attribution |-> remove_leading_duplicate_tags(all_attributions[k].attribution)]]

\* MatchEnd that takes every attribution string to be one character long
MatchEndOneCharacter(pos, attribution) == pos + 1

\* "end": pos + len(attribution)
MatchEnd(pos, attribution) == pos + Len(attribution)

\* NextStartPos that moves past a match of two characters
NextStartPosSkip(pos) == pos + 2

\* start_pos = pos + 1
NextStartPos(pos) == pos + 1

\* the while loop that finds the occurrences of one attribution from start_pos
RECURSIVE FindOccurrences(_, _, _)
FindOccurrences(text, attr_info, start_pos) ==
    LET pos == Find(text, attr_info.attribution, start_pos)
    IN  IF pos = -1 THEN <<>>
        ELSE <<[speaker_name |-> attr_info.speaker_name,
                start |-> pos,
                end |-> MatchEnd(pos, attr_info.attribution)]>>
             \o FindOccurrences(text, attr_info, NextStartPos(pos))

\* the for loop over all_attributions: the matches in discovery order
RECURSIVE FindAllMatches(_, _)
FindAllMatches(text, all_attributions) ==
    IF all_attributions = <<>> THEN <<>>
    ELSE FindOccurrences(text, Head(all_attributions), 0)
         \o FindAllMatches(text, Tail(all_attributions))

\* InsertByStart that puts m before the elements whose key equals its own
RECURSIVE InsertByStartBefore(_, _)
InsertByStartBefore(sorted, m) ==
    IF sorted = <<>> THEN <<m>>
    ELSE IF Head(sorted).start < m.start
         THEN <<Head(sorted)>> \o InsertByStartBefore(Tail(sorted), m)
         ELSE <<m>> \o sorted

\* one step of a stable sort: m goes after every element whose key is <= its own
RECURSIVE InsertByStart(_, _)
InsertByStart(sorted, m) ==
    IF sorted = <<>> THEN <<m>>
    ELSE IF Head(sorted).start <= m.start
         THEN <<Head(sorted)>> \o InsertByStart(Tail(sorted), m)
         ELSE <<m>> \o sorted

\* all_matches.sort(key=lambda x: x["start"]); list.sort is stable
RECURSIVE SortMatches(_)
SortMatches(ms) ==
    IF ms = <<>> THEN <<>>
    ELSE InsertByStart(SortMatches(SubSeq(ms, 1, Len(ms) - 1)), ms[Len(ms)])

\* UtteranceSpan with the slice ending at the end of the next match
UtteranceSpanNextEnd(text, all_matches, i) ==
    IF i < Len(all_matches)
    THEN [lo |-> all_matches[i].end, hi |-> all_matches[i + 1].end]
    ELSE [lo |-> all_matches[i].end, hi |-> Len(text)]

\* UtteranceSpan with the slice starting at the start of the match
UtteranceSpanFromStart(text, all_matches, i) ==
    IF i < Len(all_matches)
    THEN [lo |-> all_matches[i].start, hi |-> all_matches[i + 1].start]
    ELSE [lo |-> all_matches[i].start, hi |-> Len(text)]

\* UtteranceSpan with the slice running from the end of the match before
\* (the start of the document for the first) to the start of the match
UtteranceSpanBefore(text, all_matches, i) ==
    [lo |-> IF i = 1 THEN 0 ELSE all_matches[i - 1].end,
     hi |-> all_matches[i].start]

\* UtteranceSpan with every slice running to the end of the document
UtteranceSpanToEnd(text, all_matches, i) ==
    [lo |-> all_matches[i].end, hi |-> Len(text)]

\* the offsets of the slice the i-th utterance is taken from:
\* text[current_match["end"]:next_match["start"]], and
\* text[last_match["end"]:] for the last one
UtteranceSpan(text, all_matches, i) ==
    IF i < Len(all_matches)
    THEN [lo |-> all_matches[i].end, hi |-> all_matches[i + 1].start]
    ELSE [lo |-> all_matches[i].end, hi |-> Len(text)]

\* utterance_text.strip()
UtteranceText(text, span) == Strip(Slice(text, span.lo, span.hi))

\* the utterances built from the sorted matches
ExtractUtterances(text, all_matches) ==
    [i \in 1..Len(all_matches) |->
        [speaker |-> all_matches[i].speaker_name,
         utterance |-> UtteranceText(text, UtteranceSpan(text, all_matches, i))]]

\* the sorted occurrence list get_utterances works on
AllMatches(text, participants) ==
    SortMatches(FindAllMatches(text, DedupAttributions(CollectAttributions(participants))))

\* get_utterances(text, api_response, ...) for an api_response dict: the list
\* it returns, or the exception it raises
get_utterances(text, response) ==
    LET parsed_json == response.parsed_json
    IN  IF parsed_json.type = "NoneType" THEN Ok(<<>>)
        ELSE IF parsed_json.type \in {"int", "bool"} THEN Raise("TypeError")
        ELSE IF ~parsed_json.has_participants THEN Ok(<<>>)
        ELSE IF parsed_json.type # "dict" THEN Raise("AttributeError")
        ELSE IF NameLookupRaises(parsed_json.participants) THEN Raise("IndexError")
        ELSE Ok(ExtractUtterances(text, AllMatches(text, parsed_json.participants)))

-----------------------------------------------------------------------------
(* clean_utterances                                                        *)

\* the length of the longest run of characters other than stop from offset at
RECURSIVE RunLenNot(_, _, _)
RunLenNot(s, stop, at) ==
    IF at < Len(s) /\ s[at + 1] # stop THEN 1 + RunLenNot(s, stop, at + 1) ELSE 0

\* a regex of the form  opener [^stop]* closer  matched at offset at: the
\* offset just past the match, -1 when there is none.  The run cannot be
\* shortened to make the closer fit, because the closer starts with stop.
DelimitedEndAt(s, at, opener, stop, closer) ==
    IF OccursAt(s, opener, at)
    THEN LET e == at + Len(opener) + RunLenNot(s, stop, at + Len(opener))
         IN  IF OccursAt(s, closer, e) THEN e + Len(closer) ELSE -1
    ELSE -1

\* re.sub(opener [^stop]* closer, '', s), scanning from offset at
RECURSIVE RemoveDelimited(_, _, _, _, _)
RemoveDelimited(s, at, opener, stop, closer) ==
    IF at >= Len(s) THEN <<>>
    ELSE LET e == DelimitedEndAt(s, at, opener, stop, closer)
         IN  IF e = -1
             THEN <<s[at + 1]>> \o RemoveDelimited(s, at + 1, opener, stop, closer)
             ELSE RemoveDelimited(s, e, opener, stop, closer)

\* re.sub(r'<[^>]*>', '', text)
RemoveAngleBrackets(text) == RemoveDelimited(text, 0, <<"<">>, ">", <<">">>)
\* re.sub(r'\([^)]*\)', '', text)
RemoveParentheses(text) == RemoveDelimited(text, 0, <<"(">>, ")", <<")">>)
\* re.sub(r'//[^/]*//', '', text)
RemoveDoubleSlashes(text) == RemoveDelimited(text, 0, <<"/", "/">>, "/", <<"/", "/">>)
\* re.sub(r'\\[^\\]*\\', '', text)
RemoveBackslashes(text) == RemoveDelimited(text, 0, <<"\\">>, "\\", <<"\\">>)

\* JoinSplit that strips the text without collapsing its whitespace runs
JoinSplitStripOnly(text) == Strip(text)

\* the length of the run of non-whitespace characters from offset at
RECURSIVE WordLen(_, _)
WordLen(s, at) ==
    IF at < Len(s) /\ ~IsSpace(s[at + 1]) THEN 1 + WordLen(s, at + 1) ELSE 0

\* ' '.join(text.split()): the words of text, one space between them
RECURSIVE JoinSplit(_)
JoinSplit(text) ==
    LET t == LStrip(text)
        w == WordLen(t, 0)
        rest == LStrip(SliceFrom(t, w))
    IN  IF t = <<>> THEN <<>>
        ELSE IF rest = <<>> THEN Slice(t, 0, w)
        ELSE Slice(t, 0, w) \o <<" ">> \o JoinSplit(rest)

\* the four removals and the whitespace collapse of the cleaning loop
CleanText(text) ==
    JoinSplit(RemoveBackslashes(RemoveDoubleSlashes(RemoveParentheses(
        RemoveAngleBrackets(text)))))

\* utterances = [u for u in utterances if u['utterance'].strip()]
RECURSIVE DropEmpty(_)
DropEmpty(us) ==
    IF us = <<>> THEN <<>>
    ELSE IF Strip(Head(us).utterance) # <<>>
         THEN <<Head(us)>> \o DropEmpty(Tail(us))
         ELSE DropEmpty(Tail(us))

\* the cleaned record of the k-th kept utterance; a uuid4 is a fresh value,
\* modelled by the position it is generated at
CleanedUtterance(u, k) ==
    [speaker |-> u.speaker,
     utterance |-> CleanText(u.utterance),
     uuid |-> IF "uuid" \in DOMAIN u THEN u.uuid ELSE <<"uuid4", k>>]


\* the marker literals stripped from a header or footer pattern, in the order
\* of the alternation <(?:TAG_2|TAG_3|TAG_4|BOLD-|-BOLD)>
PatternTags ==
    << <<"<", "T", "A", "G", "_", "2", ">">>,
       <<"<", "T", "A", "G", "_", "3", ">">>,
       <<"<", "T", "A", "G", "_", "4", ">">>,
       <<"<", "B", "O", "L", "D", "-", ">">>,
       <<"<", "-", "B", "O", "L", "D", ">">> >>

\* the offset just past the pattern tag at offset at, -1 when there is none
PatternTagEndAt(s, at) ==
    IF \E k \in 1..Len(PatternTags) : OccursAt(s, PatternTags[k], at)
    THEN at + Len(PatternTags[CHOOSE k \in 1..Len(PatternTags) :
                                  OccursAt(s, PatternTags[k], at)])
    ELSE -1

\* re.sub(r'<(?:TAG_2|TAG_3|TAG_4|BOLD-|-BOLD)>', '', pattern), from offset at
RECURSIVE StripPatternTags(_, _)
StripPatternTags(pattern, at) ==
    IF at >= Len(pattern) THEN <<>>
    ELSE LET e == PatternTagEndAt(pattern, at)
         IN  IF e = -1
             THEN <<pattern[at + 1]>> \o StripPatternTags(pattern, at + 1)
             ELSE StripPatternTags(pattern, e)

UpperSeq == <<"A", "B", "C", "D", "E", "F", "G", "H", "I", "J", "K", "L", "M",
              "N", "O", "P", "Q", "R", "S", "T", "U", "V", "W", "X", "Y", "Z">>
LowerSeq == <<"a", "b", "c", "d", "e", "f", "g", "h", "i", "j", "k", "l", "m",
              "n", "o", "p", "q", "r", "s", "t", "u", "v", "w", "x", "y", "z">>

\* the case folding of re.IGNORECASE on one character
FoldCase(c) ==
    IF c \in UpperChars
    THEN LowerSeq[CHOOSE k \in 1..Len(UpperSeq) : UpperSeq[k] = c]
    ELSE c

\* pattern occurs in s at offset at, ignoring case
OccursAtIgnoreCase(s, pattern, at) ==
    /\ at + Len(pattern) <= Len(s)
    /\ \A k \in 1..Len(pattern) : FoldCase(s[at + k]) = FoldCase(pattern[k])

\* re.sub(pattern, '', s, flags=re.IGNORECASE) from offset at, for a pattern
\* without regex metacharacters (it then matches itself); the empty pattern
\* matches the empty string everywhere and removes nothing
RECURSIVE RemovePattern(_, _, _)
RemovePattern(s, pattern, at) ==
    IF at >= Len(s) THEN <<>>
    ELSE IF pattern # <<>> /\ OccursAtIgnoreCase(s, pattern, at)
         THEN RemovePattern(s, pattern, at + Len(pattern))
         ELSE <<s[at + 1]>> \o RemovePattern(s, pattern, at + 1)

\* utterance.copy() with ['utterance'] replaced
WithUtterance(u, text) == [u EXCEPT !.utterance = text]

\* the records appended for a non-empty header or footer pattern: one per
\* kept (not yet cleaned) utterance
PatternRecords(kept, pattern) ==
    IF pattern = <<>> THEN <<>>
    ELSE [k \in 1..Len(kept) |->
             WithUtterance(kept[k],
                 RemovePattern(kept[k].utterance, StripPatternTags(pattern, 0), 0))]

\* api_response.get(key, None) of clean_utterances; None and '' are both falsy
PatternOf(response, key) ==
    IF key \in DOMAIN response THEN response[key] ELSE <<>>

\* clean_utterances that puts the header and footer records in the place of
\* the cleaned ones
clean_utterances_substituting(us, response) ==
    LET kept == DropEmpty(us)
        header == PatternRecords(kept, PatternOf(response, "header_pattern"))
        footer == PatternRecords(kept, PatternOf(response, "footer_pattern"))
    IN  IF header \o footer = <<>>
        THEN [k \in 1..Len(kept) |-> CleanedUtterance(kept[k], k)]
        ELSE header \o footer

\* clean_utterances(utterances, api_response)
clean_utterances(us, response) ==
    LET kept == DropEmpty(us)
    IN  [k \in 1..Len(kept) |-> CleanedUtterance(kept[k], k)]
        \o PatternRecords(kept, PatternOf(response, "header_pattern"))
        \o PatternRecords(kept, PatternOf(response, "footer_pattern"))

-----------------------------------------------------------------------------
(* API_call: the part after the request, lines 787-861                     *)

\* A response text is modelled by what json.loads makes of it: fence says how
\* the text is wrapped, parses whether its body is a JSON document, value the
\* document.
ResponseText(fence, parses, value) ==
    [fence |-> fence, parses |-> parses, value |-> value]

Fences == {"none", "json", "bare"}

\* clean_response: the ```json fence is cut off, any other text is left as is
FenceStripped(response_text) == response_text.fence \in {"none", "json"}

\* json.loads(clean_response) succeeds
JsonLoads(response_text) == FenceStripped(response_text) /\ response_text.parses

ErrorResult(msg) ==
    [error |-> msg, parsed_json |-> PyNone, json_parsed_successfully |-> FALSE]

\* the dict of lines 842-854 (the token counts and the cost are left out)
ParsedResult(response_text) ==
    [error |-> "none",
     parsed_json |-> IF JsonLoads(response_text) THEN response_text.value ELSE PyNone,
     json_parsed_successfully |-> JsonLoads(response_text)]

\* API_call for what the service does: it raises, it answers with no content,
\* or it answers with a response text
API_call(outcome) ==
    IF outcome.kind = "exception" THEN ErrorResult("exception")
    ELSE IF outcome.kind = "empty" THEN ErrorResult("Empty response from API")
    ELSE ParsedResult(outcome.text)

\* HasError that looks for a key API_call never sets
HasErrorWrongKey(response) == FALSE

\* "error" in api_response
HasError(response) == response.error # "none"

-----------------------------------------------------------------------------
(* create_and_save_final_json                                              *)

EmptyDict == JsonValue("dict", FALSE, <<>>)

\* final_json["utterances"] = cleaned_utterances works on a dict only
SaveRaises(response) ==
    response.parsed_json.type \notin {"NoneType", "dict"}

\* the final_json written to output_path
FinalJson(response, cleaned) ==
    [base |-> IF response.parsed_json.type = "NoneType"
              THEN EmptyDict ELSE response.parsed_json,
     utterances |-> cleaned]

NoFile == [written |-> FALSE, final_json |-> [base |-> EmptyDict, utterances |-> <<>>]]

-----------------------------------------------------------------------------
(* main(): one run of the pipeline on one document.                        *)

\* the document strings text_processing_pipeline can hand to the later stages
Docs == SeqsUpTo(DocAlphabet, MaxDocLen)

\* what extract_speaker_attributions can find: nothing, or some candidate
CandidateLists == {<<>>, <<"candidate">>}

\* the response texts the service can answer with
ResponseTexts ==
    {ResponseText("none", TRUE, v) : v \in ObjectJsonValues \cup PatternedJsonValues}
    \cup {ResponseText(f, TRUE, v) : f \in Fences, v \in OtherJsonValues}
    \cup {ResponseText(f, FALSE, PyNone) : f \in Fences}

NoText == ResponseText("none", FALSE, PyNone)

\* what the external service can do with a request
Outcomes ==
    {[kind |-> "exception", text |-> NoText], [kind |-> "empty", text |-> NoText]}
    \cup {[kind |-> "text", text |-> t] : t \in ResponseTexts}

NoResponse == ErrorResult("none")

Init ==
    /\ pc = "extract"
    /\ full_text = <<>>
    /\ spacy_patterns = <<>>
    /\ api_response = NoResponse
    /\ utterances = <<>>
    /\ cleaned_utterances = <<>>
    /\ output_file = NoFile
    /\ raised = "none"
    /\ x = <<>>
    /\ y = <<>>

\* full_text = text_processing_pipeline(...)
\* pymupdf.open raises for a file it cannot read, and main catches nothing
Extract ==
    /\ pc = "extract"
    /\ \/ /\ full_text' \in Docs
          /\ pc' = "candidates"
          /\ UNCHANGED raised
       \/ /\ raised' = "FileDataError"
          /\ pc' = "crashed"
          /\ UNCHANGED full_text
    /\ UNCHANGED <<spacy_patterns, api_response, utterances, cleaned_utterances,
                   output_file, x, y>>

\* potential_attributions, formatted_patterns = extract_speaker_attributions(...)
ExtractCandidates ==
    /\ pc = "candidates"
    /\ spacy_patterns' \in CandidateLists
    /\ pc' = "api"
    /\ UNCHANGED <<full_text, api_response, utterances, cleaned_utterances,
                   output_file, raised, x, y>>

\* api_response = API_call(...)
CallResolver ==
    /\ pc = "api"
    /\ \E outcome \in Outcomes : api_response' = API_call(outcome)
    /\ pc' = "check"
    /\ UNCHANGED <<full_text, spacy_patterns, utterances, cleaned_utterances,
                   output_file, raised, x, y>>

\* if "error" in api_response: ... return
CheckError ==
    /\ pc = "check"
    /\ pc' = IF HasError(api_response) THEN "returned" ELSE "segment"
    /\ UNCHANGED <<full_text, spacy_patterns, api_response, utterances,
                   cleaned_utterances, output_file, raised, x, y>>

\* utterances = get_utterances(full_text, api_response, ...)
Segment ==
    /\ pc = "segment"
    /\ LET r == get_utterances(full_text, api_response)
       IN  /\ utterances' = r.value
           /\ raised' = r.raised
           /\ pc' = IF r.raised = "none" THEN "clean" ELSE "crashed"
    /\ UNCHANGED <<full_text, spacy_patterns, api_response, cleaned_utterances,
                   output_file, x, y>>

\* cleaned_utterances = clean_utterances(utterances, api_response)
Clean ==
    /\ pc = "clean"
    /\ cleaned_utterances' = clean_utterances(utterances, api_response)
    /\ pc' = "save"
    /\ UNCHANGED <<full_text, spacy_patterns, api_response, utterances,
                   output_file, raised, x, y>>

\* create_and_save_final_json(api_response, cleaned_utterances, output_path)
Save ==
    /\ pc = "save"
    /\ IF SaveRaises(api_response)
       THEN /\ raised' = "TypeError"
            /\ pc' = "crashed"
            /\ UNCHANGED output_file
       ELSE /\ output_file' = [written |-> TRUE,
                               final_json |-> FinalJson(api_response, cleaned_utterances)]
            /\ pc' = "done"
            /\ UNCHANGED raised
    /\ UNCHANGED <<full_text, spacy_patterns, api_response, utterances,
                   cleaned_utterances, x, y>>

Next ==
    \/ Extract
    \/ ExtractCandidates
    \/ CallResolver
    \/ CheckError
    \/ Segment
    \/ Clean
    \/ Save

Spec == Init /\ [][Next]_vars

-----------------------------------------------------------------------------
(* State expressions the properties are written in.                        *)

\* get_utterances has returned a list in this run
SegmenterReturned == pc \in {"clean", "save", "done"}

\* the parsed response is an object with a participants list
HasParticipantList ==
    /\ api_response.parsed_json.type = "dict"
    /\ api_response.parsed_json.has_participants

ResolvedParticipants ==
    IF HasParticipantList THEN api_response.parsed_json.participants ELSE <<>>

\* the merged occurrence list of the run
Occurrences == AllMatches(full_text, ResolvedParticipants)

\* sorted by start, and no occurrence starts before the one before it ends
NonOverlapping(ms) ==
    \A i \in 1..(Len(ms) - 1) :
        ms[i].start <= ms[i + 1].start /\ ms[i].end <= ms[i + 1].start

\* the document text between the end of occurrence i and the start of the
\* next one (the end of the document after the last one)
TextAfter(ms, i) ==
    IF i < Len(ms)
    THEN Slice(full_text, ms[i].end, ms[i + 1].start)
    ELSE SliceFrom(full_text, ms[i].end)

\* the (attribution entry, offset) pairs at which an attribution string of
\* the response occurs in the document, found by comparing characters
OccurrenceSet ==
    LET attrs == DedupAttributions(CollectAttributions(ResolvedParticipants))
    IN  {<<k, p>> \in (1..Len(attrs)) \X (0..Len(full_text)) :
            OccursAt(full_text, attrs[k].attribution, p)}

-----------------------------------------------------------------------------
(* C1: for a merged occurrence list that is sorted with no overlaps, is    *)
(* utterance i the pair (speaker of occurrence i, exactly the document     *)
(* text between the end of occurrence i and the start of the next, or the  *)
(* end of the document for the last one)?  The statement as claimed:       *)
C1_ExactText ==
    SegmenterReturned =>
        LET ms == Occurrences
        IN  NonOverlapping(ms) =>
                /\ Len(utterances) = Len(ms)
                /\ \A i \in 1..Len(ms) :
                      /\ utterances[i].speaker = ms[i].speaker_name
                      /\ utterances[i].utterance = TextAfter(ms, i)

(* C1 as amended: the utterance text is that document text with its        *)
(* leading and trailing whitespace stripped.                               *)
C1_StrippedText ==
    SegmenterReturned =>
        LET ms == Occurrences
        IN  NonOverlapping(ms) =>
                /\ Len(utterances) = Len(ms)
                /\ \A i \in 1..Len(ms) :
                      /\ utterances[i].speaker = ms[i].speaker_name
                      /\ utterances[i].utterance = Strip(TextAfter(ms, i))

\* two occurrences of two speakers with document text between them
C1_Witness ==
    /\ SegmenterReturned
    /\ NonOverlapping(Occurrences)
    /\ Len(Occurrences) = 2
    /\ Occurrences[1].speaker_name = "X"
    /\ Occurrences[2].speaker_name = "Y"
    /\ utterances[1].utterance = <<"b">>

-----------------------------------------------------------------------------
\* the discarded prefix, then each attribution text followed by texts[i]
RECURSIVE Reassemble(_, _, _)
Reassemble(ms, texts, i) ==
    IF i > Len(ms) THEN <<>>
    ELSE Slice(full_text, ms[i].start, ms[i].end) \o texts[i]
         \o Reassemble(ms, texts, i + 1)

DiscardedPrefix(ms) == IF ms = <<>> THEN <<>> ELSE Slice(full_text, 0, ms[1].start)

Reassembled(ms, texts) == DiscardedPrefix(ms) \o Reassemble(ms, texts, 1)

(* C2: segmentation partition law: for a sorted, non-overlapping           *)
(* occurrence list, the discarded prefix followed by, for each i in        *)
(* order, the attribution text of occurrence i and the text of utterance   *)
(* i, is the document.  The statement as claimed:                          *)
C2_PartitionLaw ==
    SegmenterReturned =>
        LET ms == Occurrences
        IN  (NonOverlapping(ms) /\ ms # <<>>) =>
                /\ Len(utterances) = Len(ms)
                /\ Reassembled(ms, [i \in 1..Len(utterances) |-> utterances[i].utterance])
                       = full_text

\* no text between occurrences starts or ends with whitespace
NoEdgeWhitespace(ms) ==
    \A i \in 1..Len(ms) : Strip(TextAfter(ms, i)) = TextAfter(ms, i)

(* C2 as amended: the reassembled string is the document with the leading  *)
(* and trailing whitespace of every text between occurrences removed; it   *)
(* is the document itself when no such text has whitespace at its edges.   *)
C2_PartitionLawStripped ==
    SegmenterReturned =>
        LET ms == Occurrences
            texts == [i \in 1..Len(utterances) |-> utterances[i].utterance]
        IN  (NonOverlapping(ms) /\ ms # <<>>) =>
                /\ Len(utterances) = Len(ms)
                /\ Reassembled(ms, texts)
                       = Reassembled(ms, [i \in 1..Len(ms) |-> Strip(TextAfter(ms, i))])
                /\ NoEdgeWhitespace(ms) => Reassembled(ms, texts) = full_text

\* a discarded prefix and two occurrences of two speakers, the document
\* reproduced
C2_Witness ==
    /\ SegmenterReturned
    /\ NonOverlapping(Occurrences)
    /\ Len(Occurrences) = 2
    /\ Occurrences[1].speaker_name # Occurrences[2].speaker_name
    /\ DiscardedPrefix(Occurrences) # <<>>
    /\ NoEdgeWhitespace(Occurrences)
    /\ Reassembled(Occurrences, [i \in 1..Len(utterances) |-> utterances[i].utterance])
           = full_text

-----------------------------------------------------------------------------
\* API_call has returned in this run
ResolverCalled ==
    pc \notin {"extract", "candidates", "api"} /\ raised # "FileDataError"

\* main() has ended: it ran to its last line, returned early, or raised
Ended == pc \in {"done", "returned", "crashed"}

\* API_call returned an error result (a service error or an empty response)
ErrorReturned == ResolverCalled /\ api_response.error # "none"

\* the response text was not valid JSON
JsonDecodeFailed ==
    /\ ResolverCalled
    /\ api_response.error = "none"
    /\ ~api_response.json_parsed_successfully

\* a ResolverFailure: a service error or an empty response (an error result),
\* or a response that does not parse into an object of the schema
ResolverFailure ==
    /\ ResolverCalled
    /\ \/ api_response.error # "none"
       \/ ~api_response.json_parsed_successfully
       \/ api_response.parsed_json.type # "dict"

(* C3: when the Resolver step ends in a ResolverFailure, main halts and    *)
(* the final output file is never written.  The statement as claimed:      *)
C3_FailureWritesNothing == ResolverFailure => ~output_file.written

(* C3 as amended: after a service error or an empty response main returns  *)
(* without running a later stage and writes no file; after a response      *)
(* text that is not valid JSON main runs the remaining stages with an      *)
(* empty utterance list and writes a file whose utterances list is empty.  *)
C3_ErrorHaltsDecodeFailureWrites ==
    /\ ErrorReturned =>
          /\ pc \in {"check", "returned"}
          /\ ~output_file.written
          /\ utterances = <<>> /\ cleaned_utterances = <<>>
    /\ JsonDecodeFailed =>
          /\ pc \in {"check", "segment", "clean", "save", "done"}
          /\ utterances = <<>> /\ cleaned_utterances = <<>>
          /\ output_file.written <=> pc = "done"
          /\ output_file.written => output_file.final_json.utterances = <<>>

\* a response that is no JSON went through every stage and the file exists
C3_Witness ==
    /\ JsonDecodeFailed
    /\ pc = "done"
    /\ output_file.written

-----------------------------------------------------------------------------
\* the response parsed, but not into an object of the schema, or did not parse
NotExpectedShape ==
    /\ ResolverCalled
    /\ api_response.error = "none"
    /\ \/ ~api_response.json_parsed_successfully
       \/ api_response.parsed_json.type # "dict"

(* C4: a response that does not parse as the expected shape (invalid JSON, *)
(* a JSON array, a scalar) is a handled failure: no exception escapes      *)
(* from API_call, get_utterances, clean_utterances or                      *)
(* create_and_save_final_json.                                             *)
C4_NoExceptionEscapes ==
    NotExpectedShape => (raised = "none" /\ pc # "crashed")

-----------------------------------------------------------------------------
(* C5: the number of utterances get_utterances returns is the number of    *)
(* occurrences of the response's attribution strings in the document,      *)
(* counted per attribution entry and offset, overlapping and repeated      *)
(* ones included.                                                          *)
C5_OneUtterancePerOccurrence ==
    SegmenterReturned => Len(utterances) = Cardinality(OccurrenceSet)

\* two occurrences overlap, and one attribution string is listed twice
C5_Witness ==
    /\ SegmenterReturned
    /\ Len(utterances) >= 3
    /\ ~NonOverlapping(Occurrences)
    /\ Len(ResolvedParticipants) = 2
    /\ ResolvedParticipants[1].speaker_attributions
           = ResolvedParticipants[2].speaker_attributions

-----------------------------------------------------------------------------
\* sub occurs in s at some offset >= from
OccursFrom(s, sub, from) == \E p \in from..Len(s) : OccursAt(s, sub, p)

\* the start offset of the first occurrence of the sorted list ms
FirstStart(ms) == ms[1].start

(* C6: no text located strictly before the start of the first occurrence   *)
(* is in an utterance: the slice every utterance is taken from begins at   *)
(* or after that start, and the utterance text occurs in the document at   *)
(* or after it, for overlapping occurrences too.                           *)
C6_NothingBeforeFirstOccurrence ==
    SegmenterReturned =>
        LET ms == Occurrences
        IN  ms # <<>> =>
                /\ \A j \in 1..Len(ms) : FirstStart(ms) <= ms[j].start
                /\ \A i \in 1..Len(utterances) :
                      /\ OccursFrom(full_text, utterances[i].utterance, FirstStart(ms))
                      /\ \E lo \in FirstStart(ms)..Len(full_text), hi \in 0..Len(full_text) :
                            utterances[i].utterance = Strip(Slice(full_text, lo, hi))

\* text before the first occurrence that occurs nowhere after it, and
\* occurrences that overlap
C6_Witness ==
    /\ SegmenterReturned
    /\ Len(Occurrences) >= 2
    /\ ~NonOverlapping(Occurrences)
    /\ FirstStart(Occurrences) > 0
    /\ ~OccursFrom(full_text, DiscardedPrefix(Occurrences), FirstStart(Occurrences))

-----------------------------------------------------------------------------
\* get_utterances has returned or raised in this run
SegmenterEnded ==
    pc \in {"clean", "save", "done", "crashed"} /\ raised # "FileDataError"

\* no attribution string of the response occurs in the document
NoOccurrence ==
    \A i \in 1..Len(ResolvedParticipants) :
        LET attrs == AttributionsOf(ResolvedParticipants[i])
        IN  \A k \in 1..Len(attrs) :
                Find(full_text, remove_leading_duplicate_tags(attrs[k]), 0) = -1

(* C7: zero-occurrence case: when no attribution string of the response    *)
(* occurs in the document (the participant list may be empty, the          *)
(* participants may have no attribution strings), get_utterances returns   *)
(* an empty list and raises no exception.                                  *)
C7_ZeroOccurrencesEmptyList ==
    (SegmenterEnded /\ HasParticipantList /\ NoOccurrence) =>
        /\ raised = "none"
        /\ utterances = <<>>

-----------------------------------------------------------------------------
\* the Resolver call succeeded: the response is an object of the schema
ResolverSucceeded ==
    /\ ResolverCalled
    /\ api_response.error = "none"
    /\ api_response.json_parsed_successfully
    /\ api_response.parsed_json.type = "dict"

\* zero candidates, zero resolved participants or zero occurrences
EmptyResult ==
    \/ spacy_patterns = <<>>
    \/ ResolvedParticipants = <<>>
    \/ NoOccurrence

(* C8: EmptyResult is non-fatal: when the Resolver call succeeds and there *)
(* are zero candidates, zero resolved participants or zero occurrences,    *)
(* main runs to completion and writes the final output file; with zero     *)
(* participants or zero occurrences its utterances list is empty.          *)
C8_EmptyResultCompletes ==
    (Ended /\ ResolverSucceeded /\ EmptyResult) =>
        /\ pc = "done"
        /\ output_file.written
        /\ (ResolvedParticipants = <<>> \/ NoOccurrence) =>
               output_file.final_json.utterances = <<>>

-----------------------------------------------------------------------------
(* clean_utterances on one utterance text: the specification SpecClean.    *)

MaxCleanLen == 6

\* the delimiters the cleaning loop looks for, a letter and a space
CleanAlphabet == {"<", ">", "(", ")", "/", "\\", " ", "a"}

\* the utterance texts of one length
CleanTexts(len) == [1..len -> CleanAlphabet]

InitClean ==
    /\ pc = "clean_input"
    /\ \E len \in 0..MaxCleanLen : x \in CleanTexts(len)
    /\ y = <<>>
    /\ full_text = <<>>
    /\ spacy_patterns = <<>>
    /\ api_response = NoResponse
    /\ utterances = <<>>
    /\ cleaned_utterances = <<>>
    /\ output_file = NoFile
    /\ raised = "none"

\* clean_utterances([{'speaker': 'X', 'utterance': x}], api_response)
CleanOne ==
    /\ pc = "clean_input"
    /\ utterances' = <<[speaker |-> "X", utterance |-> x]>>
    /\ cleaned_utterances' = clean_utterances(utterances', api_response)
    /\ pc' = "cleaned"
    /\ UNCHANGED <<full_text, spacy_patterns, api_response, output_file, raised, x, y>>

NextClean == CleanOne

SpecClean == InitClean /\ [][NextClean]_vars

\* s has a span  <...>, (...) or \...\ : an opening delimiter with the
\* closing one somewhere after it
HasPair(s, open, close) ==
    \E i, j \in 1..Len(s) : i < j /\ s[i] = open /\ s[j] = close

\* s has a span //...// : two slashes, no slash, two slashes
HasSlashSpan(s) ==
    \E i, j \in 1..Len(s) :
        /\ i + 2 <= j /\ j + 1 <= Len(s)
        /\ s[i] = "/" /\ s[i + 1] = "/" /\ s[j] = "/" /\ s[j + 1] = "/"
        /\ \A k \in (i + 2)..(j - 1) : s[k] # "/"

\* every whitespace character of s is one space between two other characters
WhitespaceCollapsed(s) ==
    \A i \in 1..Len(s) :
        IsSpace(s[i]) =>
            /\ s[i] = " "
            /\ 1 < i /\ i < Len(s)
            /\ ~IsSpace(s[i + 1])

\* the number of backslashes of s
Backslashes(s) == Cardinality({i \in 1..Len(s) : s[i] = "\\"})

-----------------------------------------------------------------------------
(* Regular expressions of the tag normalizer.                              *)
(*                                                                         *)
(* A regex that is a sequence of character classes, each taken once or as  *)
(* a greedy run, is a sequence of items [cls, min, many]: cls the class,   *)
(* min the least number of characters (0 or 1), many whether the item is a *)
(* greedy run.  MatchItems is the backtracking match of re: the ends of    *)
(* the items of the first match found, longest runs tried first.           *)

Once(C) == <<[cls |-> C, min |-> 1, many |-> FALSE]>>
Star(C) == <<[cls |-> C, min |-> 0, many |-> TRUE]>>
Plus(C) == <<[cls |-> C, min |-> 1, many |-> TRUE]>>

\* a literal, character by character
Lit(str) == [k \in 1..Len(str) |-> [cls |-> {str[k]}, min |-> 1, many |-> FALSE]]

\* the characters that equal c under re.IGNORECASE
CaseVariants(c) ==
    {c} \cup {d \in UpperChars \cup LowerChars : FoldCase(d) = FoldCase(c)}

\* a literal under re.IGNORECASE
LitI(str) ==
    [k \in 1..Len(str) |-> [cls |-> CaseVariants(str[k]), min |-> 1, many |-> FALSE]]

NoMatch == <<-1>>

RECURSIVE MatchItems(_, _, _, _)
RECURSIVE TryRun(_, _, _, _, _)

\* the number of items from k on that come before the next greedy run
SinglesFrom(items, k) ==
    CHOOSE m \in 0..(Len(items) - k + 1) :
        /\ \A t \in k..(k + m - 1) : ~items[t].many
        /\ k + m <= Len(items) => items[k + m].many

\* items k.. matched from offset at: the end offset of every item from k on,
\* NoMatch when they do not match; the items before the next greedy run
\* take one character each and are matched together
MatchItems(items, k, s, at) ==
    IF k > Len(items) THEN <<>>
    ELSE IF items[k].many THEN TryRun(items, k, s, at, RunLen(s, items[k].cls, at))
    ELSE LET m == SinglesFrom(items, k)
         IN  IF /\ at + m <= Len(s)
                /\ \A t \in 1..m : s[at + t] \in items[k + t - 1].cls
             THEN LET rest == MatchItems(items, k + m, s, at + m)
                  IN  IF rest = NoMatch THEN NoMatch
                      ELSE [t \in 1..m |-> at + t] \o rest
             ELSE NoMatch

\* item k takes j characters; on failure of the rest it takes one less
TryRun(items, k, s, at, j) ==
    IF j < items[k].min THEN NoMatch
    ELSE LET rest == MatchItems(items, k + 1, s, at + j)
         IN  IF rest = NoMatch
             THEN TryRun(items, k, s, at, j - 1)
             ELSE <<at + j>> \o rest

\* A replacement template is a sequence of parts [lit, grp]: the literal
\* lit, or for grp > 0 the text item grp matched (a group reference).
Text(str) == <<[lit |-> str, grp |-> 0]>>
Group(k) == <<[lit |-> <<>>, grp |-> k]>>

\* the text of the template for a match at offset at with item ends `ends`
RECURSIVE Expand(_, _, _, _)
Expand(template, s, at, ends) ==
    IF template = <<>> THEN <<>>
    ELSE LET part == Head(template)
             from == IF part.grp = 1 THEN at ELSE ends[part.grp - 1]
         IN  (IF part.grp = 0 THEN part.lit ELSE Slice(s, from, ends[part.grp]))
             \o Expand(Tail(template), s, at, ends)

\* the least offset of a non-empty set of offsets
Lowest(offsets) == CHOOSE i \in offsets : \A j \in offsets : i <= j

\* re.sub(items, template, s), scanning from offset at: the text up to the
\* next match is kept, the match is replaced and the scan goes on after it;
\* every match of the rules below is at least one character long
RECURSIVE SubItems(_, _, _, _)
SubItems(items, template, s, at) ==
    IF at >= Len(s) THEN <<>>
    ELSE LET hits == {i \in at..(Len(s) - 1) : MatchItems(items, 1, s, i) # NoMatch}
         IN  IF hits = {} THEN SliceFrom(s, at)
             ELSE LET i == Lowest(hits)
                      ends == MatchItems(items, 1, s, i)
                  IN  Slice(s, at, i) \o Expand(template, s, i, ends)
                      \o SubItems(items, template, s, ends[Len(ends)])

PunctChars == {",", ".", ";", ":", "!", "?"}
LetterChars == UpperChars \cup LowerChars

Tag2 == <<"<", "T", "A", "G", "_", "2", ">">>
Tag3 == <<"<", "T", "A", "G", "_", "3", ">">>
Tag4 == <<"<", "T", "A", "G", "_", "4", ">">>
BoldOpen == <<"<", "B", "O", "L", "D", "-", ">">>
BoldClose == <<"<", "-", "B", "O", "L", "D", ">">>

\* re.sub(r'>\s+<', '> <', text) and re.sub(r'><', '> <', text)
SingleSpaceBetweenTags(text) ==
    SubItems(Lit(<<">", "<">>), Text(<<">", " ", "<">>),
        SubItems(Lit(<<">">>) \o Plus(WhitespaceChars) \o Lit(<<"<">>),
                 Text(<<">", " ", "<">>), text, 0), 0)

\* re.sub(r'\s+', ' ', text).strip()
NormalizeSpaces(text) ==
    Strip(SubItems(Plus(WhitespaceChars), Text(<<" ">>), text, 0))

-----------------------------------------------------------------------------
(* add_text_tags.  A character outside ASCII is written by its code point. *)

\* replacements: every key is one character, and no replacement holds a
\* later key, so the chain of text.replace calls maps each character on its own
ReplacementOf(c) ==
    CASE c = "U+FFFD" -> <<>>
      [] c = "U+2018" -> <<"'">>
      [] c = "U+2019" -> <<"'">>
      [] c = "U+201C" -> <<"\"">>
      [] c = "U+201D" -> <<"\"">>
      [] c = "U+2013" -> <<"-">>
      [] c = "U+2014" -> <<"-", "-">>
      [] c = "U+00A9" -> <<>>
      [] c = "U+00A0" -> <<" ", "<", "N", "B", "S", "P", ">", " ">>
      [] c = "\f" -> <<" ", "<", "P", "A", "G", "E", "B", "R", "E", "A", "K", ">", " ">>
      [] c = "\n" -> <<" ">> \o Tag2 \o <<" ">>
      [] c = "\t" -> <<" ", "<", "T", "A", "B", ">", " ">>
      [] OTHER -> <<c>>

RECURSIVE ApplyReplacements(_)
ApplyReplacements(text) ==
    IF text = <<>> THEN <<>>
    ELSE ReplacementOf(Head(text)) \o ApplyReplacements(Tail(text))

add_text_tags(text) ==
    LET replaced == ApplyReplacements(text)
        \* [ ]{2,}
        spaced == SubItems(Once({" "}) \o Plus({" "}),
                           Text(<<" ">> \o Tag3 \o <<" ">>), replaced, 0)
        \* <TAG_3>\s*<TAG_2>
        consolidated == SubItems(Lit(Tag3) \o Star(WhitespaceChars) \o Lit(Tag2),
                                 Text(<<" ">> \o Tag4 \o <<" ">>), spaced, 0)
    IN  NormalizeSpaces(SingleSpaceBetweenTags(consolidated))

-----------------------------------------------------------------------------
(* optimize_text_tags                                                      *)

\* <TAG>\s*C\s*<TAG> under re.IGNORECASE, C one character or a run
AroundI(tag, middle) ==
    LitI(tag) \o Star(WhitespaceChars) \o middle \o Star(WhitespaceChars) \o LitI(tag)

\* the text tag with a space before it, and after it when `after`
SpacedTag(tag, after) ==
    Text(<<" ">> \o tag \o (IF after THEN <<" ">> ELSE <<>>))

\* the three substitutions of one tag around a letter, a number, a punctuation mark
RemoveSingles(tag, afterNumber, text) ==
    LET letters == SubItems(AroundI(tag, Once(LetterChars)), SpacedTag(tag, TRUE), text, 0)
        numbers == SubItems(AroundI(tag, Plus(DigitChars)), SpacedTag(tag, afterNumber),
                            letters, 0)
    IN  numbers

RemovePunctuationSingles(tag, text) ==
    SubItems(AroundI(tag, Once(PunctChars \cup {"-"})), SpacedTag(tag, FALSE), text, 0)

\* (<TAG>\s*) repeated from offset at, n repetitions seen: where the last
\* repetition starts, where the run ends, how many repetitions
RECURSIVE LastRepetition(_, _, _, _, _)
LastRepetition(s, tag, at, prev, n) ==
    IF OccursAt(s, tag, at)
    THEN LastRepetition(s, tag, SkipSpace(s, at + Len(tag)), at, n + 1)
    ELSE [start |-> prev, end |-> at, count |-> n]

\* re.sub(r'(<TAG>\s*){2,}', r'\1', s): the last repetition stays
RECURSIVE KeepLastRepetition(_, _, _)
KeepLastRepetition(tag, s, at) ==
    IF at >= Len(s) THEN <<>>
    ELSE LET hits == {i \in at..(Len(s) - 1) :
                         LastRepetition(s, tag, i, i, 0).count >= 2}
         IN  IF hits = {} THEN SliceFrom(s, at)
             ELSE LET r == LastRepetition(s, tag, Lowest(hits), Lowest(hits), 0)
                  IN  Slice(s, at, Lowest(hits)) \o Slice(s, r.start, r.end)
                      \o KeepLastRepetition(tag, s, r.end)

optimize_text_tags(text) ==
    LET t2 == RemovePunctuationSingles(Tag2, RemoveSingles(Tag2, FALSE, text))
        t3 == RemovePunctuationSingles(Tag3, RemoveSingles(Tag3, FALSE, t2))
        t4 == RemoveSingles(Tag4, TRUE, t3)
        kept == KeepLastRepetition(Tag2,
                    KeepLastRepetition(Tag3, KeepLastRepetition(Tag4, t4, 0), 0), 0)
    IN  SingleSpaceBetweenTags(kept)

-----------------------------------------------------------------------------
(* optimize_word_tags                                                      *)

\* <BOLD->\s*(C)\s*<-BOLD> replaced by ' \1 '; the group is item 9
Unbold(middle, text) ==
    SubItems(Lit(BoldOpen) \o Star(WhitespaceChars) \o middle
                 \o Star(WhitespaceChars) \o Lit(BoldClose),
             Text(<<" ">>) \o Group(Len(BoldOpen) + 2) \o Text(<<" ">>), text, 0)

optimize_word_tags(text) ==
    LET unbolded == Unbold(Plus(DigitChars),
                        Unbold(Once(LetterChars), Unbold(Once(PunctChars), text)))
        \* <-BOLD>\s*<BOLD->
        merged == SubItems(Lit(BoldClose) \o Star(WhitespaceChars) \o Lit(BoldOpen),
                           Text(<<>>), unbolded, 0)
    IN  NormalizeSpaces(SingleSpaceBetweenTags(merged))

-----------------------------------------------------------------------------
(* normalize_punctuation                                                   *)

normalize_punctuation(text) ==
    LET \* :(\w) -> ': \1'
        after == SubItems(Lit(<<":">>) \o Once(WordChars),
                          Text(<<":", " ">>) \o Group(2), text, 0)
        \* (\w+)\s+: -> '\1:'
        before == SubItems(Plus(WordChars) \o Plus(WhitespaceChars) \o Lit(<<":">>),
                           Group(1) \o Text(<<":">>), after, 0)
        \* \s+([,.;:!?])\s+ -> ' '
        isolated == SubItems(Plus(WhitespaceChars) \o Once(PunctChars)
                                 \o Plus(WhitespaceChars),
                             Text(<<" ">>), before, 0)
    IN  Strip(isolated)

-----------------------------------------------------------------------------
(* format_spaced_headers                                                   *)

\* the lookbehinds (?<!\S)(?<!<)(?<![\w-]) at offset at
HeaderMayStartAt(s, at) ==
    \/ at = 0
    \/ /\ IsSpace(s[at])
       /\ s[at] # "<"
       /\ s[at] \notin WordChars \cup {"-"}

\* (?![^<]*>) at offset e: no '>' ahead that comes before any '<'
RECURSIVE ClosesTagAhead(_, _)
ClosesTagAhead(s, e) ==
    IF e >= Len(s) THEN FALSE
    ELSE IF s[e + 1] = ">" THEN TRUE
    ELSE IF s[e + 1] = "<" THEN FALSE
    ELSE ClosesTagAhead(s, e + 1)

\* the lookaheads (?!\w)(?![^<]*>)(?!\S) at offset e
HeaderMayEndAt(s, e) ==
    /\ e >= Len(s) \/ s[e + 1] \notin WordChars
    /\ ~ClosesTagAhead(s, e)
    /\ e >= Len(s) \/ IsSpace(s[e + 1])

\* the ends of [A-Z](?:\s+[A-Z])* after 0, 1, 2, ... repetitions, e the end
\* of the letters matched so far
RECURSIVE HeaderEnds(_, _)
HeaderEnds(s, e) ==
    LET next == SkipSpace(s, e)
    IN  <<e>> \o (IF next > e /\ next < Len(s) /\ s[next + 1] \in UpperChars
                  THEN HeaderEnds(s, next + 1)
                  ELSE <<>>)

\* spaced_header_pattern matched at offset at: the end of the match, the most
\* repetitions (two at least) after which the lookaheads hold; -1 when none
HeaderEndAt(s, at) ==
    IF ~(HeaderMayStartAt(s, at) /\ s[at + 1] \in UpperChars) THEN -1
    ELSE LET ends == HeaderEnds(s, at + 1)
             ok == {k \in 3..Len(ends) : HeaderMayEndAt(s, ends[k])}
         IN  IF ok = {} THEN -1
             ELSE ends[CHOOSE k \in ok : \A j \in ok : j <= k]

\* re.search(r'\s{2,}', text)
HasWideGap(text) ==
    \E at \in 0..Len(text) : RunLen(text, WhitespaceChars, at) >= 2

\* re.split(r'\s{2,}', s) from offset at, cur the word being read
RECURSIVE SplitOnWideGaps(_, _, _)
SplitOnWideGaps(s, at, cur) ==
    IF at >= Len(s) THEN <<cur>>
    ELSE LET w == RunLen(s, WhitespaceChars, at)
         IN  IF w >= 2
             THEN <<cur>> \o SplitOnWideGaps(s, at + w, <<>>)
             ELSE SplitOnWideGaps(s, at + 1, cur \o <<s[at + 1]>>)

\* re.sub(r'\s+', '', text)
RemoveWhitespace(text) == SelectSeq(text, LAMBDA c : ~IsSpace(c))

\* ' '.join(words)
RECURSIVE JoinWords(_)
JoinWords(words) ==
    IF words = <<>> THEN <<>>
    ELSE IF Len(words) = 1 THEN words[1]
    ELSE words[1] \o <<" ">> \o JoinWords(Tail(words))

\* re.sub(r'(?<=[a-z0-9])(?=[A-Z])', ' ', text)
RECURSIVE SpaceBeforeUppercase(_)
SpaceBeforeUppercase(text) ==
    IF Len(text) < 2 THEN text
    ELSE <<text[1]>>
         \o (IF text[1] \in LowerChars \cup DigitChars /\ text[2] \in UpperChars
             THEN <<" ">> ELSE <<>>)
         \o SpaceBeforeUppercase(Tail(text))

process_header(spaced_text) ==
    IF HasWideGap(spaced_text)
    THEN LET words == SplitOnWideGaps(spaced_text, 0, <<>>)
         IN  JoinWords([k \in 1..Len(words) |-> RemoveWhitespace(words[k])])
    ELSE LET condensed == RemoveWhitespace(spaced_text)
             spaced == SpaceBeforeUppercase(condensed)
         IN  \* (\d)\s+(\d) -> '\1\2'
             SubItems(Once(DigitChars) \o Plus(WhitespaceChars) \o Once(DigitChars),
                      Group(1) \o Group(3), spaced, 0)

RECURSIVE SubHeaders(_, _)
SubHeaders(s, at) ==
    IF at >= Len(s) THEN <<>>
    ELSE LET hits == {i \in at..(Len(s) - 1) : HeaderEndAt(s, i) # -1}
         IN  IF hits = {} THEN SliceFrom(s, at)
             ELSE LET i == Lowest(hits)
                      e == HeaderEndAt(s, i)
                  IN  Slice(s, at, i) \o process_header(Slice(s, i, e))
                      \o SubHeaders(s, e)

format_spaced_headers(text) == SubHeaders(text, 0)

-----------------------------------------------------------------------------
(* remove_repeating_punctuation                                            *)

RepeatChars == {".", "!", "?"}

\* how many copies of unit follow one another from offset at
RECURSIVE Copies(_, _, _)
Copies(s, unit, at) ==
    IF OccursAt(s, unit, at) THEN 1 + Copies(s, unit, at + Len(unit)) ELSE 0

\* ([.!?](\s+))\1{2,} at offset at: the end of the match, -1 when none.  The
\* group takes the whole whitespace run: with a shorter one the copy would
\* have to start with a whitespace character.
SpacedRepeatEndAt(s, at) ==
    IF s[at + 1] \notin RepeatChars THEN -1
    ELSE LET e == SkipSpace(s, at + 1)
             unit == Slice(s, at, e)
             n == Copies(s, unit, e)
         IN  IF e > at + 1 /\ n >= 2 THEN e + n * Len(unit) ELSE -1

\* ([.!?])\1{2,} at offset at
RepeatEndAt(s, at) ==
    IF s[at + 1] \notin RepeatChars THEN -1
    ELSE LET n == RunLen(s, {s[at + 1]}, at)
         IN  IF n >= 3 THEN at + n ELSE -1

\* ([.]\s*){2,} at offset at
DotsEndAt(s, at) ==
    LET r == LastRepetition(s, <<".">>, at, at, 0)
    IN  IF r.count >= 2 THEN r.end ELSE -1

\* the match of the pattern named kind at offset at
RepeatMatchEnd(kind, s, at) ==
    CASE kind = "spaced" -> SpacedRepeatEndAt(s, at)
      [] kind = "same" -> RepeatEndAt(s, at)
      [] kind = "dots" -> DotsEndAt(s, at)

\* re.sub(pattern, '', s)
RECURSIVE RemoveRepeats(_, _, _)
RemoveRepeats(kind, s, at) ==
    IF at >= Len(s) THEN <<>>
    ELSE LET hits == {i \in at..(Len(s) - 1) : RepeatMatchEnd(kind, s, i) # -1}
         IN  IF hits = {} THEN SliceFrom(s, at)
             ELSE Slice(s, at, Lowest(hits))
                  \o RemoveRepeats(kind, s, RepeatMatchEnd(kind, s, Lowest(hits)))

remove_repeating_punctuation(text) ==
    RemoveRepeats("dots", RemoveRepeats("same", RemoveRepeats("spaced", text, 0), 0), 0)

-----------------------------------------------------------------------------
(* fix_tag_spacing                                                         *)

\* c1\s*c2\s*...cn\s* for the characters of str
Spaced(str) ==
    [k \in 1..(2 * Len(str)) |->
        IF k % 2 = 1
        THEN [cls |-> {str[(k + 1) \div 2]}, min |-> 1, many |-> FALSE]
        ELSE [cls |-> WhitespaceChars, min |-> 0, many |-> TRUE]]

TagPrefix == <<"<", "T", "A", "G", "_">>

fix_tag_spacing(text) ==
    LET \* <\s*T\s*A\s*G\s*_\s*(\d+)\s*> -> '<TAG_\1>'
        tags == SubItems(Spaced(TagPrefix) \o Plus(DigitChars)
                             \o Star(WhitespaceChars) \o Lit(<<">">>),
                         Text(TagPrefix) \o Group(2 * Len(TagPrefix) + 1) \o Text(<<">">>),
                         text, 0)
        \* <\s*B\s*O\s*L\s*D\s*-\s*>
        opened == SubItems(Spaced(SubSeq(BoldOpen, 1, Len(BoldOpen) - 1)) \o Lit(<<">">>),
                           Text(BoldOpen), tags, 0)
        \* <\s*-\s*B\s*O\s*L\s*D\s*>
        closed == SubItems(Spaced(SubSeq(BoldClose, 1, Len(BoldClose) - 1)) \o Lit(<<">">>),
                           Text(BoldClose), opened, 0)
    IN  closed

-----------------------------------------------------------------------------
(* The tag normalizer: the seven passes in the order the specification     *)
(* gives.                                                                  *)

\* pass(s), the argument evaluated before the pass is entered, as a Python
\* call evaluates its argument
Call(pass(_), s) == IF s = <<>> THEN pass(<<>>) ELSE pass(s)

normalize(text) ==
    Call(fix_tag_spacing,
        Call(remove_repeating_punctuation,
            Call(format_spaced_headers,
                Call(normalize_punctuation,
                    Call(optimize_word_tags,
                        Call(optimize_text_tags,
                            Call(add_text_tags, text)))))))

-----------------------------------------------------------------------------
(* The tag normalizer applied to its own output: the specification         *)
(* SpecNorm.                                                               *)

MaxNormLen == 4

\* a letter, a capital, a space, a line break and two punctuation marks
NormAlphabet == {"a", "A", " ", "\n", ".", ":"}

NormTexts == SeqsUpTo(NormAlphabet, MaxNormLen)

InitNorm ==
    /\ pc = "norm_input"
    /\ x \in NormTexts
    /\ y = <<>>
    /\ full_text = <<>>
    /\ spacy_patterns = <<>>
    /\ api_response = NoResponse
    /\ utterances = <<>>
    /\ cleaned_utterances = <<>>
    /\ output_file = NoFile
    /\ raised = "none"

\* y = normalize(x)
NormalizeInput ==
    /\ pc = "norm_input"
    /\ y' = normalize(x)
    /\ pc' = "normalized"
    /\ UNCHANGED <<full_text, spacy_patterns, api_response, utterances,
                   cleaned_utterances, output_file, raised, x>>

\* the normalizer run again on what it returned: x becomes the first
\* result, y the second
NormalizeOutput ==
    /\ pc = "normalized"
    /\ x' = y
    /\ y' = normalize(y)
    /\ pc' = "renormalized"
    /\ UNCHANGED <<full_text, spacy_patterns, api_response, utterances,
                   cleaned_utterances, output_file, raised>>

NextNorm == NormalizeInput \/ NormalizeOutput

SpecNorm == InitNorm /\ [][NextNorm]_vars

\* C9: the normalizer is idempotent: normalizing the normalizer's output
\* returns it unchanged, normalize(normalize(x)) = normalize(x), for every
\* input string x.
C9_NormalizeIdempotent == pc = "renormalized" => y = x

-----------------------------------------------------------------------------
(* clean_utterances called with a response dict that has header_pattern    *)
(* and footer_pattern: the specification SpecPatterns.                     *)

MaxUtterances == 2

\* The utterance texts are the pattern alone, the pattern in the other case
\* after a letter, whitespace only, the pattern in parentheses; an utterance
\* is as get_utterances returns it, or has a uuid already.  A pattern is
\* empty, a literal, a marker alone, a marker and a literal.
InitPatterns ==
    /\ pc = "patterns_input"
    /\ LET texts == {<<"b">>, <<"a", "B">>, <<" ">>, <<"(", "b", ")">>}
           inputs == [speaker : Speakers, utterance : texts]
                     \cup [speaker : Speakers, utterance : texts, uuid : {"u1"}]
           patterns == {<<>>, <<"b">>, Tag2, Tag2 \o <<"b">>}
       IN  /\ \E n \in 0..MaxUtterances : utterances \in [1..n -> inputs]
           /\ api_response \in [header_pattern : patterns, footer_pattern : patterns]
    /\ cleaned_utterances = <<>>
    /\ full_text = <<>>
    /\ spacy_patterns = <<>>
    /\ output_file = NoFile
    /\ raised = "none"
    /\ x = <<>>
    /\ y = <<>>

\* cleaned_utterances = clean_utterances(utterances, api_response)
CleanWithPatterns ==
    /\ pc = "patterns_input"
    /\ cleaned_utterances' = clean_utterances(utterances, api_response)
    /\ pc' = "patterns_cleaned"
    /\ UNCHANGED <<full_text, spacy_patterns, api_response, utterances,
                   output_file, raised, x, y>>

NextPatterns == CleanWithPatterns

SpecPatterns == InitPatterns /\ [][NextPatterns]_vars

\* the input utterances whose text is not whitespace only, in input order
NonBlank(us) ==
    SelectSeq(us, LAMBDA u : \E i \in 1..Len(u.utterance) : ~IsSpace(u.utterance[i]))

\* 1 for a non-empty pattern, 0 for an empty one
Present(pattern) == IF pattern = <<>> THEN 0 ELSE 1

\* C11: every record clean_utterances returns has the three fields speaker,
\* utterance and uuid, for every response, with a non-empty header_pattern or
\* footer_pattern too, and a record whose input carried a uuid keeps it.
C11_ThreeFields ==
    pc = "patterns_cleaned" =>
        /\ \A i \in 1..Len(cleaned_utterances) :
              DOMAIN cleaned_utterances[i] = {"speaker", "utterance", "uuid"}
        /\ \A k \in 1..Len(NonBlank(utterances)) :
              "uuid" \in DOMAIN NonBlank(utterances)[k] =>
                  cleaned_utterances[k].uuid = NonBlank(utterances)[k].uuid

-----------------------------------------------------------------------------
\* the response parsed into an object with a non-empty header or footer pattern
PatternReturned ==
    /\ ResolverCalled
    /\ api_response.error = "none"
    /\ api_response.parsed_json.type = "dict"
    /\ \/ api_response.parsed_json.header_pattern # <<>>
       \/ api_response.parsed_json.footer_pattern # <<>>

\* C13: end to end, when the parsed response has a non-empty header_pattern
\* or footer_pattern, the utterance list main writes to the final output has,
\* for every utterance of non-whitespace text, the additional record with
\* that pattern removed, after the cleaned records.
C13_PatternsAppliedByMain ==
    (pc = "done" /\ PatternReturned) =>
        LET kept == NonBlank(utterances)
            n == Len(kept)
            hp == api_response.parsed_json.header_pattern
            fp == api_response.parsed_json.footer_pattern
            written == output_file.final_json.utterances
        IN  /\ Len(written) = n * (1 + Present(hp) + Present(fp))
            /\ \A k \in 1..n :
                  /\ hp # <<>> =>
                        written[n + k].utterance
                            = RemovePattern(kept[k].utterance, StripPatternTags(hp, 0), 0)
                  /\ fp # <<>> =>
                        written[n + Present(hp) * n + k].utterance
                            = RemovePattern(kept[k].utterance, StripPatternTags(fp, 0), 0)


-----------------------------------------------------------------------------
(* remove_leading_duplicate_tags on an attribution string that begins with *)
(* markers: the specification SpecTags.                                    *)

MaxTags == 3

\* x is the attribution string in parts: its leading markers (a line break,
\* a tab, an opening bold marker) and the text after them
InitTags ==
    /\ pc = "tags_input"
    /\ LET markers == {Tag2, <<"<", "T", "A", "B", ">">>, BoldOpen}
       IN  \E n \in 0..MaxTags :
               x \in [markers : [1..n -> markers], rest : {<<>>, <<"J", ":">>}]
    /\ y = <<>>
    /\ full_text = <<>>
    /\ spacy_patterns = <<>>
    /\ api_response = NoResponse
    /\ utterances = <<>>
    /\ cleaned_utterances = <<>>
    /\ output_file = NoFile
    /\ raised = "none"

\* ''.join(parts)
RECURSIVE Concat(_)
Concat(parts) == IF parts = <<>> THEN <<>> ELSE Head(parts) \o Concat(Tail(parts))

\* y = remove_leading_duplicate_tags(attribution)
RemoveLeadingDuplicates ==
    /\ pc = "tags_input"
    /\ y' = remove_leading_duplicate_tags(Concat(x.markers) \o x.rest)
    /\ pc' = "tags_done"
    /\ UNCHANGED <<full_text, spacy_patterns, api_response, utterances,
                   cleaned_utterances, output_file, raised, x>>

NextTags == RemoveLeadingDuplicates

SpecTags == InitTags /\ [][NextTags]_vars

\* every run of equal adjacent markers of the list reduced to one marker
RECURSIVE Collapsed(_)
Collapsed(markers) ==
    IF Len(markers) < 2 THEN markers
    ELSE IF markers[1] = markers[2] THEN Collapsed(Tail(markers))
    ELSE <<markers[1]>> \o Collapsed(Tail(markers))

\* C14: remove_leading_duplicate_tags collapses every run of identical
\* adjacent leading markers, for any marker of the vocabulary, into one
\* instance and leaves the rest of the attribution string unchanged: what it
\* returns is, whitespace between the markers aside, the collapsed markers
\* followed by the rest.
C14_LeadingRunsCollapsed ==
    pc = "tags_done" =>
        /\ RemoveWhitespace(y) = Concat(Collapsed(x.markers)) \o x.rest
        /\ SliceFrom(y, Len(y) - Len(x.rest)) = x.rest


-----------------------------------------------------------------------------
(* API_call on a response text wrapped in a code fence, character by       *)
(* character: the specification SpecFence.                                 *)

MaxGap == 1

\* three backquotes; the backquote is written by its code point
BareFence == <<"U+0060", "U+0060", "U+0060">>
JsonFence == BareFence \o <<"j", "s", "o", "n">>

\* clean_response of lines 805-810
CleanResponse(response_text) ==
    IF OccursAt(response_text, JsonFence, 0)
    THEN LET hits == {i \in 0..Len(response_text) : OccursAt(response_text, BareFence, i)}
             end_pos == CHOOSE i \in hits : \A j \in hits : j <= i
         IN  IF end_pos > 0 THEN Strip(Slice(response_text, 7, end_pos))
             ELSE response_text
    ELSE response_text

\* json.loads(s) succeeds, for a text of braces, backquotes, letters and
\* whitespace: the only JSON document of these characters is the empty object
\* with whitespace in and around it
JsonLoadsText(s) ==
    LET t == Strip(s)
    IN  /\ Len(t) >= 2
        /\ t[1] = "{"
        /\ t[Len(t)] = "}"
        /\ \A k \in 2..(Len(t) - 1) : t[k] \in {" ", "\t", "\n", "\r"}

\* x is the response text in parts: whitespace, the opening fence, whitespace,
\* the body, whitespace, the closing fence, whitespace
InitFence ==
    /\ pc = "fence_input"
    /\ LET gaps == SeqsUpTo({" ", "\n"}, MaxGap)
       IN  x \in [lead : gaps, open : {<<>>, BareFence, JsonFence}, before : gaps,
                  body : {<<"{", "}">>, <<"{", " ", "}">>, <<"{">>},
                  after : gaps, close : {<<>>, BareFence}, trail : gaps]
    /\ y = <<>>
    /\ full_text = <<>>
    /\ spacy_patterns = <<>>
    /\ api_response = NoResponse
    /\ utterances = <<>>
    /\ cleaned_utterances = <<>>
    /\ output_file = NoFile
    /\ raised = "none"

\* lines 803-821 and 834-845: the parsed_json and json_parsed_successfully
\* that API_call returns for the response text
ParseResponse ==
    /\ pc = "fence_input"
    /\ LET response_text == x.lead \o x.open \o x.before \o x.body
                            \o x.after \o x.close \o x.trail
           parsed_successfully == JsonLoadsText(CleanResponse(response_text))
       IN  y' = [parsed_json |-> IF parsed_successfully THEN EmptyDict ELSE PyNone,
                 json_parsed_successfully |-> parsed_successfully]
    /\ pc' = "fence_done"
    /\ UNCHANGED <<full_text, spacy_patterns, api_response, utterances,
                   cleaned_utterances, output_file, raised, x>>

NextFence == ParseResponse

SpecFence == InitFence /\ [][NextFence]_vars

\* the response text is a valid JSON object enclosed in a code fence
FencedObject ==
    /\ x.open \in {BareFence, JsonFence}
    /\ x.close = BareFence
    /\ JsonLoadsText(x.body)

\* C15: for every response text that is a valid JSON object enclosed in a
\* code fence, with or without a language tag and with or without whitespace
\* around it, API_call strips the fence and returns the parsed object with
\* json_parsed_successfully true.
C15_FencedResponseParsed ==
    (pc = "fence_done" /\ FencedObject) =>
        /\ y.json_parsed_successfully
        /\ y.parsed_json = EmptyDict


-----------------------------------------------------------------------------
(* normalize_adjacent_uppercase_words                                      *)

\* \b at offset i of s: a word character on exactly one side
WordBoundary(s, i) ==
    (i > 0 /\ s[i] \in WordChars) # (i < Len(s) /\ s[i + 1] \in WordChars)

\* re.sub(r'\bOPERATOR\b', 'Operator', text), scanning from offset at
RECURSIVE TitleOperator(_, _)
TitleOperator(text, at) ==
    LET word == <<"O", "P", "E", "R", "A", "T", "O", "R">>
    IN  IF at >= Len(text) THEN <<>>
        ELSE IF /\ OccursAt(text, word, at)
                /\ WordBoundary(text, at)
                /\ WordBoundary(text, at + Len(word))
        THEN <<"O", "p", "e", "r", "a", "t", "o", "r">>
             \o TitleOperator(text, at + Len(word))
        ELSE <<text[at + 1]>> \o TitleOperator(text, at + 1)

\* [A-Z'\-]
NameChars == UpperChars \cup {"'", "-"}

\* [A-Z][A-Z'\-]+\b at offset at: the end of the longest match, -1 for none
LastNameEnd(s, at) ==
    LET n == IF at < Len(s) /\ s[at + 1] \in UpperChars
             THEN RunLen(s, NameChars, at + 1) ELSE 0
        ends == {e \in (at + 2)..(at + 1 + n) : WordBoundary(s, e)}
    IN  IF ends = {} THEN -1 ELSE CHOOSE e \in ends : \A f \in ends : f <= e

\* the pattern matched at offset at: the ends of groups 1, 2 and 3 (group 2
\* is empty when its end is the end of group 1), last = -1 when there is no
\* match.  Group 1 runs up to the whitespace after it; group 2 is tried
\* before the match without it, and leaves one whitespace to group 3.
NameMatch(s, at) ==
    LET n1 == IF s[at + 1] \in UpperChars THEN 1 + RunLen(s, NameChars, at + 1) ELSE 0
        e1 == at + n1
        initial == e1 + RunLen(s, WhitespaceChars, e1)
        has_initial == initial > e1 /\ initial < Len(s) /\ s[initial + 1] \in UpperChars
        dot == IF initial + 1 < Len(s) /\ s[initial + 2] = "."
               THEN initial + 2 ELSE initial + 1
        gap == RunLen(s, WhitespaceChars, dot)
        with_middle == IF has_initial /\ gap >= 2 THEN LastNameEnd(s, dot + gap) ELSE -1
        without == IF initial > e1 THEN LastNameEnd(s, initial) ELSE -1
    IN  IF ~WordBoundary(s, at) \/ n1 < 2 THEN [first |-> at, middle |-> at, last |-> -1]
        ELSE IF with_middle # -1
        THEN [first |-> e1, middle |-> dot + gap - 1, last |-> with_middle]
        ELSE [first |-> e1, middle |-> e1, last |-> without]

\* str.title(): a cased character after a cased one is lowered, any other
\* cased character is raised
RECURSIVE Title(_, _)
Title(s, after_cased) ==
    IF s = <<>> THEN <<>>
    ELSE LET c == Head(s)
             raised_c == IF c \in LowerChars
                         THEN UpperSeq[CHOOSE k \in 1..Len(LowerSeq) : LowerSeq[k] = c]
                         ELSE c
         IN  <<IF after_cased THEN FoldCase(c) ELSE raised_c>>
             \o Title(Tail(s), c \in LetterChars)

\* convert_to_title(match)
convert_to_title(s, at, m) ==
    Title(Slice(s, at, m.first), FALSE) \o Slice(s, m.first, m.middle)
    \o Title(Slice(s, m.middle, m.last), FALSE)

\* re.sub(pattern, convert_to_title, text), scanning from offset at
RECURSIVE TitleNames(_, _)
TitleNames(text, at) ==
    IF at >= Len(text) THEN <<>>
    ELSE LET m == NameMatch(text, at)
         IN  IF m.last = -1 THEN <<text[at + 1]>> \o TitleNames(text, at + 1)
             ELSE convert_to_title(text, at, m) \o TitleNames(text, m.last)

normalize_adjacent_uppercase_words(text) == TitleNames(TitleOperator(text, 0), 0)


-----------------------------------------------------------------------------
(* text_processing_pipeline: the text of the pages of the document made    *)
(* into the document string.  The specification SpecExtract.               *)

MaxPages == 2
MaxPageLen == 3

\* clean_special_characters: every key is one character and no replacement
\* holds a key, so each character is replaced on its own
RECURSIVE clean_special_characters(_)
clean_special_characters(text) ==
    IF text = <<>> THEN <<>>
    ELSE LET c == Head(text)
         IN  (CASE c \in {"U+FFFD", "U+00A9"} -> <<>>
                [] c \in {"U+2018", "U+2019"} -> <<"'">>
                [] c \in {"U+201C", "U+201D"} -> <<"\"">>
                [] c = "U+2013" -> <<"-">>
                [] c = "U+2014" -> <<"-", "-">>
                [] OTHER -> <<c>>)
             \o clean_special_characters(Tail(text))

\* text.split('\n')
RECURSIVE SplitLines(_)
SplitLines(text) ==
    LET at == Find(text, <<"\n">>, 0)
    IN  IF at = -1 THEN <<text>>
        ELSE <<Slice(text, 0, at)>> \o SplitLines(SliceFrom(text, at + 1))

\* cleaned_line: the leading run of whitespace and punctuation (the class of
\* line 328, which has no parenthesis) removed, then the name casing
CleanLine(line) ==
    LET leading == WhitespaceChars \cup
            {"!", "\"", "#", "$", "%", "&", "'", "*", "+", ",", "-", ".", "/",
             ":", ";", "<", "=", ">", "?", "@", "[", "\\", "]", "^", "_",
             "U+0060", "{", "|", "}", "~"}
    IN  normalize_adjacent_uppercase_words(SliceFrom(line, RunLen(line, leading, 0)))

\* len(cleaned_line.strip()) > 1
Retained(cleaned_line) == Len(Strip(cleaned_line)) > 1

\* '\n'.join(line + "<TAG_2>" for line in lines)
RECURSIVE JoinTagged(_)
JoinTagged(lines) ==
    IF lines = <<>> THEN <<>>
    ELSE Head(lines) \o Tag2
         \o (IF Len(lines) > 1 THEN <<"\n">> ELSE <<>>) \o JoinTagged(Tail(lines))

PageBreak == <<"\n", "<", "P", "A", "G", "E", "_", "B", "R", "E", "A", "K", ">", "\n">>

\* the cleaned lines of a page
CleanedLines(page_text) ==
    LET lines == SplitLines(clean_special_characters(page_text))
    IN  [k \in 1..Len(lines) |-> CleanLine(lines[k])]

\* text_processing_pipeline on the texts of the pages: every cleaned line
\* goes to cleaned_lines_with_tags, and cleaned_lines is not read
RECURSIVE text_processing_pipeline(_)
text_processing_pipeline(pages) ==
    IF pages = <<>> THEN <<>>
    ELSE JoinTagged(CleanedLines(Head(pages))) \o PageBreak
         \o text_processing_pipeline(Tail(pages))

\* x is the texts of the pages, page.get_text("text") of each page
InitExtract ==
    /\ pc = "pages_input"
    /\ \E n \in 0..MaxPages :
           x \in [1..n -> SeqsUpTo({"a", ".", "\n"}, MaxPageLen)]
    /\ y = <<>>
    /\ full_text = <<>>
    /\ spacy_patterns = <<>>
    /\ api_response = NoResponse
    /\ utterances = <<>>
    /\ cleaned_utterances = <<>>
    /\ output_file = NoFile
    /\ raised = "none"

\* y = text_processing_pipeline(pdf_path, ...)
ExtractPages ==
    /\ pc = "pages_input"
    /\ y' = text_processing_pipeline(x)
    /\ pc' = "pages_extracted"
    /\ UNCHANGED <<full_text, spacy_patterns, api_response, utterances,
                   cleaned_utterances, output_file, raised, x>>

NextExtract == ExtractPages

SpecExtract == InitExtract /\ [][NextExtract]_vars

\* the document string in which only the retained lines of every page
\* appear, each followed by one <TAG_2>
RECURSIVE RetainedLinesOnly(_)
RetainedLinesOnly(pages) ==
    IF pages = <<>> THEN <<>>
    ELSE JoinTagged(SelectSeq(CleanedLines(Head(pages)), Retained)) \o PageBreak
         \o RetainedLinesOnly(Tail(pages))

\* C18: for every page, a line that has one or no visible character after
\* the leading punctuation and whitespace are stripped contributes nothing
\* to the document string, and every retained line appears in it followed
\* by exactly one <TAG_2>.
C18_OnlyRetainedLinesTagged ==
    pc = "pages_extracted" => y = RetainedLinesOnly(x)


-----------------------------------------------------------------------------
(* The stages of main and the document string they read.                   *)

\* C16: the stages of main run in the order extractor, tag normalizer,
\* candidate extraction, resolver, segmenter, cleaner, so the document string
\* that candidate extraction, the resolver and the segmenter read is the
\* output of the tag normalizer passes for the text the extractor returned,
\* the same string for all three.
C16_StagesReadNormalizedText ==
    pc \in {"candidates", "api", "segment"} => full_text = normalize(full_text)

\* C17: when the source document cannot be read or is empty, with no pages
\* or no text, the pipeline aborts and no stage after the extractor runs: no
\* such run gets past candidate extraction or writes the output file.
C17_ExtractionFailureAborts ==
    (raised = "FileDataError" \/ full_text = <<>>) =>
        /\ pc \in {"extract", "candidates", "crashed"}
        /\ ~output_file.written


-----------------------------------------------------------------------------
(* get_operator_attributions: the specification SpecOperators.             *)

MaxOperatorTokens == 3

\* (<[^>]+>)+ at offset at: the offset just past the last tag of the run,
\* -1 when no tag starts at at.  A tag runs up to the first ">" after it.
RECURSIVE OperatorTagsEnd(_, _, _)
OperatorTagsEnd(s, at, found) ==
    LET n == RunLenNot(s, ">", at + 1)
    IN  IF at < Len(s) /\ s[at + 1] = "<" /\ n >= 1 /\ at + 1 + n < Len(s)
        THEN OperatorTagsEnd(s, at + n + 2, TRUE)
        ELSE IF found THEN at ELSE -1

\* operator_pattern matched at offset at: the offset just past the match, -1
\* when there is none.  A shorter run of tags leaves a "<" where the
\* whitespace or the word has to be, so only the whole run is tried.
OperatorEndAt(s, at) ==
    LET word == <<"O", "p", "e", "r", "a", "t", "o", "r">>
        e == OperatorTagsEnd(s, at, FALSE)
        w == e + RunLen(s, WhitespaceChars, e)
    IN  IF e # -1 /\ OccursAt(s, word, w) THEN w + Len(word) ELSE -1

\* match.group(0) of every match of re.finditer(operator_pattern, text), from
\* offset at on
RECURSIVE OperatorMatches(_, _)
OperatorMatches(text, at) ==
    LET hits == {i \in at..(Len(text) - 1) : OperatorEndAt(text, i) # -1}
    IN  IF hits = {} THEN <<>>
        ELSE <<Slice(text, Lowest(hits), OperatorEndAt(text, Lowest(hits)))>>
             \o OperatorMatches(text, OperatorEndAt(text, Lowest(hits)))

\* the string operator_attributions after the loop: one line per match
RECURSIVE OperatorLines(_)
OperatorLines(matches) ==
    IF matches = <<>> THEN <<>>
    ELSE <<"O", "p", "e", "r", "a", "t", "o", "r", " ", "w", "i", "t", "h", " ",
           "t", "a", "g", "s", ":", " ">> \o Head(matches) \o <<"\n">>
         \o OperatorLines(Tail(matches))

\* the elements of a sequence, each once, in the order of first occurrence
Distinct(s) ==
    LET firsts == {k \in 1..Len(s) : \A j \in 1..(k - 1) : s[j] # s[k]}
    IN  [i \in 1..Cardinality(firsts) |->
            s[CHOOSE k \in firsts : Cardinality({j \in firsts : j <= k}) = i]]

\* the lists get_operator_attributions can return.  operator_attributions is
\* a string, so list(set(operator_attributions)) is the list of its distinct
\* characters, in the order the set iterates them, which depends on the hash
\* seed of the interpreter run: any order can come out.  The model takes the
\* rotations of the order of first occurrence.
get_operator_attributions(text) ==
    LET chars == Distinct(OperatorLines(OperatorMatches(text, 0)))
        n == Len(chars)
    IN  {[k \in 1..n |-> chars[((k + r) % n) + 1]] : r \in 0..Max(n - 1, 0)}

\* x is the document string
InitOperators ==
    /\ pc = "operators_input"
    /\ LET tokens == {<<"<", "T", ">">>, <<"<", "B", ">">>, <<" ">>, <<"a">>,
                      <<"O", "p", "e", "r", "a", "t", "o", "r">>}
       IN  \E n \in 0..MaxOperatorTokens : \E parts \in [1..n -> tokens] :
               x = Concat(parts)
    /\ y = <<>>
    /\ full_text = <<>>
    /\ spacy_patterns = <<>>
    /\ api_response = NoResponse
    /\ utterances = <<>>
    /\ cleaned_utterances = <<>>
    /\ output_file = NoFile
    /\ raised = "none"

\* y = get_operator_attributions(full_text)
ScanOperators ==
    /\ pc = "operators_input"
    /\ y' \in get_operator_attributions(x)
    /\ pc' = "operators_done"
    /\ UNCHANGED <<full_text, spacy_patterns, api_response, utterances,
                   cleaned_utterances, output_file, raised, x>>

NextOperators == ScanOperators

SpecOperators == InitOperators /\ [][NextOperators]_vars

\* C19: get_operator_attributions returns a list that holds each distinct
\* matched string (one or more markers immediately followed by the word
\* Operator) exactly once, as a whole string, and nothing else.
C19_DistinctWholeMatches ==
    pc = "operators_done" =>
        LET matches == Distinct(OperatorMatches(x, 0))
        IN  /\ Len(y) = Len(matches)
            /\ {y[k] : k \in 1..Len(y)} = {matches[k] : k \in 1..Len(matches)}


-----------------------------------------------------------------------------
(* normalize_adjacent_uppercase_words on a line of tokens: the             *)
(* specification SpecNames.                                                *)

MaxNameTokens == 3

\* x is the tokens of the line, which single spaces separate: upper-case
\* words, an initial with and without its dot, a lower-case word
InitNames ==
    /\ pc = "names_input"
    /\ LET tokens == {<<"A", "B">>, <<"C", "D", "E">>, <<"F", ".">>, <<"F">>,
                      <<"g", "h">>}
       IN  \E n \in 0..MaxNameTokens : x \in [1..n -> tokens]
    /\ y = <<>>
    /\ full_text = <<>>
    /\ spacy_patterns = <<>>
    /\ api_response = NoResponse
    /\ utterances = <<>>
    /\ cleaned_utterances = <<>>
    /\ output_file = NoFile
    /\ raised = "none"

\* y = normalize_adjacent_uppercase_words(line)
TitleLine ==
    /\ pc = "names_input"
    /\ y' = normalize_adjacent_uppercase_words(JoinWords(x))
    /\ pc' = "names_done"
    /\ UNCHANGED <<full_text, spacy_patterns, api_response, utterances,
                   cleaned_utterances, output_file, raised, x>>

NextNames == TitleLine

SpecNames == InitNames /\ [][NextNames]_vars

\* an all-upper-case token of two or more letters
IsUpperWord(token) ==
    Len(token) >= 2 /\ \A k \in 1..Len(token) : token[k] \in UpperChars

\* the line is a run of two or more upper-case words, or two upper-case
\* words with a middle initial between them
IsNameRun(tokens) ==
    \/ Len(tokens) >= 2 /\ \A k \in 1..Len(tokens) : IsUpperWord(tokens[k])
    \/ /\ Len(tokens) = 3
       /\ IsUpperWord(tokens[1]) /\ IsUpperWord(tokens[3])
       /\ tokens[2] \in {<<"F">>, <<"F", ".">>}

\* C20: normalize_adjacent_uppercase_words converts every token of a run of
\* two or more adjacent all-upper-case tokens, with or without a middle
\* initial between them, to title case, for runs of any length of two or
\* more tokens.
C20_NameRunTitleCased ==
    (pc = "names_done" /\ IsNameRun(x)) =>
        y = JoinWords([k \in 1..Len(x) |-> Title(x[k], FALSE)])


-----------------------------------------------------------------------------
(* format_spaced_headers on a spaced-out header: the specification         *)
(* SpecHeaders.                                                            *)

MaxHeaderWords == 2
MaxWordLetters == 3

\* the characters of a header: capital letters and a digit
HeaderChars == {"Q", "E", "2"}

\* the words of a header: one to MaxWordLetters characters each
HeaderWords == UNION {[1..n -> HeaderChars] : n \in 1..MaxWordLetters}

\* parts joined with sep between them
RECURSIVE JoinWith(_, _)
JoinWith(parts, sep) ==
    IF parts = <<>> THEN <<>>
    ELSE IF Len(parts) = 1 THEN parts[1]
    ELSE parts[1] \o sep \o JoinWith(Tail(parts), sep)

\* the header as it is in the document: the characters of a word one space
\* apart, the words gap spaces apart
SpacedHeader(header) ==
    JoinWith([k \in 1..Len(header.words) |->
                 JoinWith([j \in 1..Len(header.words[k]) |-> <<header.words[k][j]>>],
                          <<" ">>)],
             [j \in 1..header.gap |-> " "])

\* x is the header: its words and the width of the boundary between them
InitHeaders ==
    /\ pc = "header_input"
    /\ \E n \in 1..MaxHeaderWords :
           x \in [words : [1..n -> HeaderWords], gap : {2, 3}]
    /\ y = <<>>
    /\ full_text = <<>>
    /\ spacy_patterns = <<>>
    /\ api_response = NoResponse
    /\ utterances = <<>>
    /\ cleaned_utterances = <<>>
    /\ output_file = NoFile
    /\ raised = "none"

\* y = format_spaced_headers(text)
FormatHeader ==
    /\ pc = "header_input"
    /\ y' = format_spaced_headers(SpacedHeader(x))
    /\ pc' = "header_done"
    /\ UNCHANGED <<full_text, spacy_patterns, api_response, utterances,
                   cleaned_utterances, output_file, raised, x>>

NextHeaders == FormatHeader

SpecHeaders == InitHeaders /\ [][NextHeaders]_vars

\* the header begins with a capital letter, has a boundary of two or more
\* spaces and three characters or more
HasWordBoundary(header) ==
    /\ Len(header.words) >= 2
    /\ Len(Concat(header.words)) >= 3
    /\ header.words[1][1] \in UpperChars

\* C21: format_spaced_headers rewrites a spaced-out header whose words are
\* separated by a boundary of two or more spaces by removing the spaces
\* inside each word and rejoining the words with single spaces, so that
\* "Q 2 2 0 2 3  E A R N I N G S" becomes "Q2 2023 EARNINGS".
C21_HeaderReconstructed ==
    (pc = "header_done" /\ HasWordBoundary(x)) => y = JoinWords(x.words)


-----------------------------------------------------------------------------
(* get_utterances on documents in which attribution strings repeat,        *)
(* overlap and begin with markers: the specification SpecSearch.           *)

MaxSearchTokens == 3
MaxSearchAttributions == 2

\* the documents: a letter that repeats, a letter no attribution string
\* holds, and a marker followed by a space
SearchDocs ==
    LET tokens == {<<"a">>, <<"b">>, Tag2 \o <<" ">>}
    IN  UNION {{Concat(parts) : parts \in [1..n -> tokens]} : n \in 0..MaxSearchTokens}

\* the attribution strings: the empty string, a letter, the letter twice (its
\* occurrences overlap), and the letter after a marker written twice
SearchAttributions == {<<>>, <<"a">>, <<"a", "a">>, Tag2 \o Tag2 \o <<"a">>}

\* the responses: participant X with one to MaxSearchAttributions attribution
\* strings, alone or followed by participant Y with one attribution string
SearchResponses ==
    LET participant(name, attrs) ==
            [has_names |-> TRUE, speaker_name_variants |-> <<name>>,
             has_attrs |-> TRUE, speaker_attributions |-> attrs]
        first == UNION {[1..n -> SearchAttributions] : n \in 1..MaxSearchAttributions}
    IN  {ParsedResult(ResponseText("none", TRUE, JsonValue("dict", TRUE, ps))) :
            ps \in {<<participant("X", f)>> : f \in first}
                   \cup {<<participant("X", f), participant("Y", <<a>>)>> :
                            f \in first, a \in SearchAttributions}}

InitSearch ==
    /\ pc = "search_input"
    /\ full_text \in SearchDocs
    /\ api_response \in SearchResponses
    /\ spacy_patterns = <<>>
    /\ utterances = <<>>
    /\ cleaned_utterances = <<>>
    /\ output_file = NoFile
    /\ raised = "none"
    /\ x = <<>>
    /\ y = <<>>

\* utterances = get_utterances(full_text, api_response, ...); y holds the
\* locals of the call: all_matches as the search loop leaves it (found), as
\* the sort leaves it (all_matches), and the offsets of the slices the
\* utterance texts are taken from (spans)
SearchOccurrences ==
    /\ pc = "search_input"
    /\ LET r == get_utterances(full_text, api_response)
           all_attributions ==
               DedupAttributions(
                   CollectAttributions(api_response.parsed_json.participants))
       IN  /\ utterances' = r.value
           /\ raised' = r.raised
           /\ \E found \in {FindAllMatches(full_text, all_attributions)} :
                 \E all_matches \in {SortMatches(found)} :
                     y' = [found |-> found,
                           all_matches |-> all_matches,
                           spans |-> [i \in 1..Len(all_matches) |->
                                         UtteranceSpan(full_text, all_matches, i)]]
    /\ pc' = "searched"
    /\ UNCHANGED <<full_text, spacy_patterns, api_response, cleaned_utterances,
                   output_file, x>>

NextSearch == SearchOccurrences

SpecSearch == InitSearch /\ [][NextSearch]_vars

\* the (speaker, attribution string) pairs of the response, in the order of
\* the response
AttributionPairs ==
    LET ps == api_response.parsed_json.participants
    IN  UNION {{[speaker_name |-> ps[i].speaker_name_variants[1],
                 attribution |-> ps[i].speaker_attributions[k]] :
                    k \in 1..Len(ps[i].speaker_attributions)} : i \in 1..Len(ps)}

\* the document text at [p, p + len(a)) is a
TextIs(a, p) ==
    /\ p + Len(a) <= Len(full_text)
    /\ \A k \in 1..Len(a) : full_text[p + k] = a[k]

\* C22: for every (speaker, attribution string) pair and every offset p,
\* get_utterances records the occurrence (speaker, p, p + len(a)) if and
\* only if the document text at [p, p + len(a)) equals a, a being the
\* attribution string after the collapse of its leading markers, positions
\* that overlap an earlier match of the same string included; the search
\* loop ends for every attribution string, the empty one too, having
\* recorded no more than one occurrence per pair and offset.
C22_SearchExactAndComplete ==
    pc = "searched" =>
        /\ \A pair \in AttributionPairs : \A p \in 0..Len(full_text) :
              LET a == remove_leading_duplicate_tags(pair.attribution)
                  occurrence == [speaker_name |-> pair.speaker_name,
                                 start |-> p, end |-> p + Len(a)]
              IN  (\E i \in 1..Len(y.found) : y.found[i] = occurrence) <=> TextIs(a, p)
        /\ \A i \in 1..Len(y.found) :
              /\ y.found[i].start \in 0..Len(full_text)
              /\ \E pair \in AttributionPairs :
                    /\ pair.speaker_name = y.found[i].speaker_name
                    /\ y.found[i].end = y.found[i].start
                           + Len(remove_leading_duplicate_tags(pair.attribution))
        /\ Len(y.found) <= (Len(full_text) + 1)
               * Len(CollectAttributions(api_response.parsed_json.participants))

\* the attribution string "aa" found at two offsets that overlap, the empty
\* attribution string found at every offset, and an attribution string found
\* after the collapse of its markers
C22_Witness ==
    /\ pc = "searched"
    /\ \E i, j \in 1..Len(y.found) :
          /\ y.found[i].speaker_name = y.found[j].speaker_name
          /\ y.found[i].end - y.found[i].start = 2
          /\ y.found[j].end - y.found[j].start = 2
          /\ y.found[j].start = y.found[i].start + 1
    /\ \E pair \in AttributionPairs : pair.attribution = <<>>
    /\ \E i \in 1..Len(y.found) : y.found[i].start = y.found[i].end


\* the occurrences of ms that start at offset p, in the order of ms
StartingAt(ms, p) == SelectSeq(ms, LAMBDA m : m.start = p)

\* C23: the merged occurrence list is sorted by start offset ascending, and
\* the occurrences with the same start offset keep their discovery order
\* (participant order in the response, then attribution order within the
\* participant, then position), so the speaker assigned at a tie is
\* determined by the response.
C23_SortedStableByStart ==
    pc = "searched" =>
        /\ Len(y.all_matches) = Len(y.found)
        /\ \A i \in 1..(Len(y.all_matches) - 1) :
              y.all_matches[i].start <= y.all_matches[i + 1].start
        /\ \A p \in 0..Len(full_text) :
              StartingAt(y.all_matches, p) = StartingAt(y.found, p)

\* two speakers with an occurrence at the same start offset, in a search
\* that did not find the occurrences in the order of their start offsets
C23_Witness ==
    /\ pc = "searched"
    /\ \E i \in 1..(Len(y.all_matches) - 1) :
          /\ y.all_matches[i].start = y.all_matches[i + 1].start
          /\ y.all_matches[i].speaker_name = "X"
          /\ y.all_matches[i + 1].speaker_name = "Y"
    /\ \E i \in 1..(Len(y.found) - 1) : y.found[i].start > y.found[i + 1].start


-----------------------------------------------------------------------------
(* extract_speaker_attributions, the candidates derived from the PERSON     *)
(* entities: the specification SpecCandidates.  The entities are the       *)
(* answer of the spaCy pipeline; the text around an entity is the input.   *)

MaxPreTokens == 3
MaxPostChars == 3

\* s.rfind(sub): the highest offset at which sub occurs, -1 when there is none
RFind(s, sub) ==
    LET hits == {i \in 0..(Len(s) - Len(sub)) : OccursAt(s, sub, i)}
    IN  IF hits = {} THEN -1 ELSE CHOOSE i \in hits : \A j \in hits : i >= j

formatting_tags == <<Tag2, Tag3, Tag4, BoldOpen>>
punctuation_marks == <<":", "-", ",", ">">>

\* the record appended to potential_speakers for a PERSON entity
PotentialSpeaker(text, ent) ==
    LET start_char == Max(0, ent.start_char - 2)
    IN  [name |-> Slice(text, start_char, ent.end_char),
         start |-> start_char,
         end |-> ent.end_char]

\* text[max(0, speaker["start"] - 10):speaker["start"]]
PreContext(text, speaker) == Slice(text, Max(0, speaker.start - 10), speaker.start)

\* text[speaker["end"]:min(len(text), speaker["end"] + 15)]
PostContext(text, speaker) == Slice(text, speaker.end, Min(Len(text), speaker.end + 15))

\* any(tag in pre_context for tag in formatting_tags)
HasFormattingTag(pre_context) ==
    \E k \in 1..Len(formatting_tags) : Find(pre_context, formatting_tags[k], 0) # -1

\* the loop over formatting_tags from the k-th tag on: the first tag of the
\* list that pre_context holds sets start_idx and ends the loop
RECURSIVE StartIdx(_, _, _)
StartIdx(speaker, pre_context, k) ==
    IF k > Len(formatting_tags) THEN speaker.start
    ELSE LET tag_pos == RFind(pre_context, formatting_tags[k])
         IN  IF tag_pos # -1
             THEN speaker.start - (Len(pre_context) - tag_pos)
             ELSE StartIdx(speaker, pre_context, k + 1)

\* the loop over punctuation_marks from the k-th mark on, end_idx being the
\* value of the variable on entry
RECURSIVE EndIdx(_, _, _, _)
EndIdx(speaker, post_context, k, end_idx) ==
    IF k > Len(punctuation_marks) THEN end_idx
    ELSE LET mark_pos == Find(post_context, <<punctuation_marks[k]>>, 0)
             potential_end == speaker.end + mark_pos + 1
         IN  IF mark_pos # -1 /\ (end_idx = speaker.end \/ potential_end < end_idx)
             THEN potential_end
             ELSE EndIdx(speaker, post_context, k + 1, end_idx)

\* the body of the loop over potential_speakers for one speaker
Candidate(text, speaker) ==
    LET pre_context == PreContext(text, speaker)
        post_context == PostContext(text, speaker)
        start_idx == StartIdx(speaker, pre_context, 1)
        end_idx == EndIdx(speaker, post_context, 1, speaker.end)
    IN  IF HasFormattingTag(pre_context)
        THEN [formed |-> TRUE, start_idx |-> start_idx, end_idx |-> end_idx,
              attribution |-> Slice(text, start_idx, end_idx)]
        ELSE [formed |-> FALSE, start_idx |-> speaker.start, end_idx |-> speaker.end,
              attribution |-> <<>>]

\* ner_patterns after the candidates from the k-th on were looked at
RECURSIVE NerPatterns(_, _, _)
NerPatterns(candidates, k, ner_patterns) ==
    IF k > Len(candidates) THEN ner_patterns
    ELSE LET c == candidates[k]
         IN  IF c.formed /\ c.attribution # <<>>
                /\ ~(\E j \in 1..Len(ner_patterns) : ner_patterns[j] = c.attribution)
             THEN NerPatterns(candidates, k + 1, Append(ner_patterns, c.attribution))
             ELSE NerPatterns(candidates, k + 1, ner_patterns)

\* the text before a name: tags, blanks and letters
PreTexts == {Concat(p) : p \in SeqsUpTo({Tag2, BoldOpen, <<" ">>, <<"x">>}, MaxPreTokens)}

\* the text after a name: punctuation marks, blanks and letters
PostTexts == SeqsUpTo({":", "-", ",", ">", " ", "s"}, MaxPostChars)

PersonName == <<"A", "l">>

\* the document around the name
CandidateText(around) == around.pre \o PersonName \o around.post

\* doc.ents: the name is the one PERSON entity
PersonEntities(around) ==
    <<[start_char |-> Len(around.pre), end_char |-> Len(around.pre) + Len(PersonName)]>>

\* x is the text before and after the name
InitCandidates ==
    /\ pc = "entities_input"
    /\ x \in [pre : PreTexts, post : PostTexts]
    /\ y = <<>>
    /\ full_text = <<>>
    /\ spacy_patterns = <<>>
    /\ api_response = NoResponse
    /\ utterances = <<>>
    /\ cleaned_utterances = <<>>
    /\ output_file = NoFile
    /\ raised = "none"

\* PART 1 of extract_speaker_attributions(text, nlp)
NerCandidates ==
    /\ pc = "entities_input"
    /\ LET text == CandidateText(x)
           ents == PersonEntities(x)
           potential_speakers == [i \in 1..Len(ents) |-> PotentialSpeaker(text, ents[i])]
           candidates == [i \in 1..Len(ents) |-> Candidate(text, potential_speakers[i])]
       IN  y' = [potential_speakers |-> potential_speakers,
                 candidates |-> candidates,
                 ner_patterns |-> NerPatterns(candidates, 1, <<>>)]
    /\ pc' = "candidates_done"
    /\ UNCHANGED <<full_text, spacy_patterns, api_response, utterances,
                   cleaned_utterances, output_file, raised, x>>

NextCandidates == NerCandidates

SpecCandidates == InitCandidates /\ [][NextCandidates]_vars

\* the offsets in context of the four punctuation marks
MarkOffsets(context) ==
    {p \in 0..(Len(context) - 1) : context[p + 1] \in {":", "-", ",", ">"}}

\* the offsets in context of the structural markers
MarkerOffsets(context) ==
    {p \in 0..(Len(context) - 1) :
        \E k \in 1..Len(formatting_tags) : OccursAt(context, formatting_tags[k], p)}

\* the candidate starts at the nearest marker of the window before the name
StartsAtNearestMarker(text, speaker, candidate) ==
    LET pre_context == PreContext(text, speaker)
        markers == MarkerOffsets(pre_context)
    IN  markers # {} =>
           candidate.start_idx =
               speaker.start - Len(pre_context)
                   + (CHOOSE p \in markers : \A q \in markers : p >= q)

\* the candidate ends just past the closest mark of the window after the name
EndsPastClosestMark(text, speaker, candidate) ==
    LET marks == MarkOffsets(PostContext(text, speaker))
    IN  marks # {} =>
           candidate.end_idx =
               speaker.end + (CHOOSE p \in marks : \A q \in marks : p <= q) + 1

\* C24: for a candidate derived from a person entity, when one or more of
\* the marks ':', '-', ',', '>' occur in the 15 characters after the name the
\* candidate ends just past the mark closest to the end of the name,
\* whichever of the four it is, and the candidate starts at the nearest
\* structural marker of the 10 characters before the name.
C24_ClosestMarkWins ==
    pc = "candidates_done" =>
        \A i \in 1..Len(y.candidates) :
            y.candidates[i].formed =>
                /\ EndsPastClosestMark(CandidateText(x), y.potential_speakers[i],
                                       y.candidates[i])
                /\ StartsAtNearestMarker(CandidateText(x), y.potential_speakers[i],
                                         y.candidates[i])



-----------------------------------------------------------------------------
(* The page separators of the document string.                             *)

\* the marker of a page separator
PageMarker == SubSeq(PageBreak, 2, Len(PageBreak) - 1)

\* the offsets of text at which a page separator marker stands
PageMarkerOffsets(text) ==
    {p \in 0..(Len(text) - Len(PageMarker)) : OccursAt(text, PageMarker, p)}

\* C25: for a document of N >= 1 pages the document string is the page texts
\* in page order with one page separator between each pair of consecutive
\* pages, and no page separator before the first page or after the last one.
C25_SeparatorsBetweenPages ==
    (pc = "pages_extracted" /\ Len(x) >= 1) =>
        /\ y = JoinWith([k \in 1..Len(x) |-> JoinTagged(CleanedLines(x[k]))], PageBreak)
        /\ Cardinality(PageMarkerOffsets(y)) = Len(x) - 1



\* C26: clean_utterances returns no record whose utterance text is empty or
\* whitespace-only, whatever the input, an utterance that is only markers or
\* bracketed spans and is empty after the cleaning included.
C26_NoEmptyUtteranceReturned ==
    pc = "cleaned" =>
        \A k \in 1..Len(cleaned_utterances) :
            Strip(cleaned_utterances[k].utterance) # <<>>



\* C27: get_utterances raises no exception for a response whose participants
\* conform to the schema: speaker_name_variants and speaker_attributions are
\* each a list of strings that may be empty or absent (an empty attribution
\* string and an empty list of name variants included).
C27_SegmenterNeverRaises ==
    (SegmenterEnded /\ HasParticipantList) => raised = "none"



\* the document offsets of the characters of a slice text[lo:hi]
SpanPositions(span) == {q \in 0..(Len(full_text) - 1) : span.lo <= q /\ q < span.hi}

\* C28: for every document and every occurrence list, overlapping or not,
\* the document spans the utterance texts are taken from are pairwise
\* disjoint and in ascending document order: every character of an earlier
\* span stands before every character of a later one, so no document
\* character is in two utterances.
C28_SpansDisjointAscending ==
    pc = "searched" =>
        /\ \A i, j \in 1..Len(y.spans) :
              i < j => \A p \in SpanPositions(y.spans[i]) :
                           \A q \in SpanPositions(y.spans[j]) : p < q
        /\ raised = "none" =>
              /\ Len(utterances) = Len(y.spans)
              /\ \A i \in 1..Len(y.spans) :
                    utterances[i].utterance = UtteranceText(full_text, y.spans[i])

\* an occurrence that starts inside the one before it, a slice whose end is
\* before its start, and two utterances with characters
C28_Witness ==
    /\ pc = "searched"
    /\ raised = "none"
    /\ \E i \in 1..(Len(y.all_matches) - 1) :
          /\ y.all_matches[i].start < y.all_matches[i + 1].start
          /\ y.all_matches[i + 1].start < y.all_matches[i].end
    /\ \E i \in 1..Len(y.spans) : y.spans[i].hi < y.spans[i].lo
    /\ \E i, j \in 1..Len(y.spans) :
          /\ i < j
          /\ SpanPositions(y.spans[i]) # {}
          /\ SpanPositions(y.spans[j]) # {}

=============================================================================
